---- MODULE Spec2Model ----
(***************************************************************************)
(* RSS-to-Telegram-Bot: the feed monitor (src/src/feed.py, class Feed),    *)
(* the feed registry (class Feeds) and its bucket scheduler.               *)
(*                                                                         *)
(* The network fetcher and the feed fetch adapter (src/src/web.py).         *)
(*                                                                         *)
(* The content parser (src/src/parsing/html_parser.py).                    *)
(*                                                                         *)
(* The specifications share the variables below:                           *)
(*   Spec         one Feed polled by Feed.monitor_async, with the dispatch *)
(*                queue of the 'Post' pool and a process stop/restart;     *)
(*   RegSpec      callers of Feeds.add_feed_async / Feeds.del_feed;        *)
(*   SchedSpec    the due-bucket selection of Feeds.monitor_async;         *)
(*   LockSpec     Feeds._lock and the accesses of Feeds._feeds;            *)
(*   GateSpec     the semaphores of web.get;                               *)
(*   RetrySpec    the attempts of web.get's RetryClient;                   *)
(*   ProxySpec    web.proxy_filter and the connector of web.get;           *)
(*   CycleSpec    the gather of a polling cycle and its counts;            *)
(*   AdapterSpec  web.feed_get and feed.feed_get_async;                    *)
(*   PipeSpec     the entries of one batch through the two pools;          *)
(*   PoolSpec     the two pools with their tasks counted (PoolFairSpec:    *)
(*                with fair scheduling of their threads);                  *)
(*   DeliverSpec  the posts of a batch from rendering to the send pool;    *)
(*   OverlapSpec  two polls of one feed that overlap;                      *)
(*   ImgSpec      the img branch of Parser._parse_item;                    *)
(*   IframeSpec   the iframe branch and its fetch (IframeFairSpec: with    *)
(*                the clock of the attempts running);                      *)
(*   ParseSpec    two parsers at work on the same document;                *)
(*   TreeSpec     Parser._parse_item on bounded DOM trees;                 *)
(*   MergeSpec    the srcset merge loop round by round (MergeFairSpec:     *)
(*                with the rounds running);                                *)
(*   EntriesSpec  the read of entries[0] by a poll and by an add.          *)
(***************************************************************************)
EXTENDS Integers, Sequences, FiniteSets, TLC

VARIABLES
    feeds,      \* Feeds._feeds : fid -> [name, link, last]
    db,         \* persistence collaborator : name -> [link, last]
    notices,    \* number of env.bot.send_message calls made so far
    \* ---- Feed.monitor_async (one poll of the feed with fid MonFid)
    mpc,        \* position of the poll
    rss,        \* rss_d held by the poll
    fetched,    \* what the fetch of the poll ended in (kind, status)
    mprev,      \* local `last` of monitor_async (feed.py:42)
    toSend,     \* entries_to_send not yet submitted (Feed.send)
    ret,        \* value the latest poll returned
    genq,       \* tasks pending in Feed._generate_pool
    \* ---- history of the current poll
    last0,      \* Feed.last when the poll began
    db0,        \* persisted state when the poll began
    sent,       \* entries submitted to the pool by the poll, in order
    wrote,      \* the poll has executed db.write
    crashRss,   \* feed content of the batch a process stop interrupted
    replay,     \* the poll re-reads the content of the interrupted batch
    \* ---- callers of the registry
    cpc, cargs, cres,
    \* ---- scheduler
    delay,      \* env.DELAY, seconds
    minute,     \* datetime.utcnow().minute at the next cycle
    window,     \* the feeds selected by the latest bucket cycles, oldest first
    sret,       \* how the latest cycle's selection ended
    \* ---- Feeds._lock and the threads using the registry
    lock,       \* fasteners.ReaderWriterLock: its writer (0: none) and its readers
    tpc,        \* position of each thread
    targ,       \* locals of each thread
    \* ---- web._semaphore and the fetches of web.get
    gfree,      \* free permits of each semaphore
    gwait,      \* fetches waiting in acquire(), per semaphore
    gfly,       \* fetches past acquire() and not finished, per semaphore argument
    glast,      \* how the fetch that finished last left web.get
    \* ---- the attempts of web.get's RetryClient
    rpc,        \* position of each fetch
    rattempt,   \* number of the current (or last) attempt of each fetch
    rlast,      \* what the latest finished attempt of each fetch ended in
    \* ---- web.proxy_filter and the connector web.get chooses
    purl,       \* the hostname of the url and the settings of env
    pres,       \* the connector chosen for it
    \* ---- one polling cycle of Feeds.monitor_async
    polls,      \* the polls of the feeds due in the cycle, each running or ended
    cyc,        \* the cycle, with its counts once it has them
    \* ---- web.feed_get / feed.feed_get_async called once
    ain,        \* what the fetcher and the feed-format parser do in the call
    ares,       \* what the call gives its caller
    \* ---- the entries of one batch in Feed._generate_pool and Feed._send_pool
    batch,      \* feed indices of the entries Feed.send has still to submit, in order
    gen_queue,  \* entries waiting in _generate_pool, oldest submission first
    gen_busy,   \* entries being rendered
    send_queue, \* entries waiting in _send_pool
    send_busy,  \* entries being sent
    deliveries, \* entries in the order in which their send_message began
    \* ---- Feed._generate_pool and Feed._send_pool, their tasks counted
    gen_pool,   \* _generate_pool: tasks waiting and tasks being rendered
    callbacks,  \* finished renders whose _send_callback has not submitted yet
    send_pool,  \* _send_pool: tasks waiting and tasks being sent
    mark,       \* where one of the submitted entries is, and how many tasks are ahead of it
    \* ---- the posts of Feed.send through _generate, _send_callback and _send
    posts,      \* where each submitted entry is on its way through the two pools
    send_calls, \* calls of post.send_message made for each entry
    \* ---- polls of one feed that overlap (Feed.monitor_async called again before it returned)
    published,  \* entries the source of the feed has published so far, numbered oldest first
    opolls,     \* each poll: its position, and the feed content its fetch was answered with
    flast,      \* Feed.last of the feed, as the number of the entry it designates
    fdb,        \* the marker the persistence collaborator holds
    fbatch,     \* the entries the latest poll submitted, in order
    \* ---- Parser._parse_item on one img element
    img,        \* the img element: its attributes, and the feed link of the parser
    iout,       \* what _parse_item returned for it and what it added to Parser.media
    \* ---- Parser._parse_item on one iframe element and the fetch of its title
    ifr,        \* the iframe element, the position of the parser in its branch and what the branch returned
    ifetch,     \* the web.get call of the branch: its attempt and the seconds the attempt has taken
    igate,      \* free permits of web._semaphore, which the other fetches of the process take and give back
    \* ---- two parsers on one document (ParseSpec)
    dom,        \* the document, the feed link and the answer of the iframe fetch
    runs,       \* each Parser: its position, its result list and its media
    \* ---- one parser on one DOM tree (TreeSpec)
    tnode,      \* the DOM tree at hand and the feed link of the parser
    tout,       \* what _parse_item made of it: returned or raised, the node, the media
    \* ---- the srcset merge loop, round by round (MergeSpec)
    loop,       \* the candidates of an img, the two sorted lists, _multi_src, and where the loop is
    \* ---- the first entry of a fetched feed (EntriesSpec)
    efirst      \* a poll or an add at its read of entries[0]: the fetch, the marker before and after, the result

vars == <<feeds, db, notices, mpc, rss, fetched, mprev, toSend, ret, genq,
          last0, db0, sent, wrote, crashRss, replay,
          cpc, cargs, cres, delay, minute, window, sret,
          lock, tpc, targ,
          gfree, gwait, gfly, glast,
          rpc, rattempt, rlast,
          purl, pres,
          polls, cyc,
          ain, ares,
          batch, gen_queue, gen_busy, send_queue, send_busy, deliveries,
          gen_pool, callbacks, send_pool, mark,
          posts, send_calls,
          published, opolls, flast, fdb, fbatch,
          img, iout,
          ifr, ifetch, igate,
          dom, runs,
          tnode, tout,
          loop,
          efirst>>

monVars == <<mpc, rss, fetched, mprev, toSend, ret, genq,
             last0, db0, sent, wrote, crashRss, replay>>
regVars == <<cpc, cargs, cres>>
schedVars == <<delay, minute, window, sret>>
lockVars == <<lock, tpc, targ>>
gateVars == <<gfree, gwait, gfly, glast>>
retryVars == <<rpc, rattempt, rlast>>
proxyVars == <<purl, pres>>
cycleVars == <<polls, cyc>>
adapterVars == <<ain, ares>>
pipeVars == <<batch, gen_queue, gen_busy, send_queue, send_busy, deliveries>>
poolVars == <<gen_pool, callbacks, send_pool, mark>>
deliverVars == <<posts, send_calls>>
overlapVars == <<published, opolls, flast, fdb, fbatch>>
imgVars == <<img, iout>>
iframeVars == <<ifr, ifetch, igate>>
parseVars == <<dom, runs>>
treeVars == <<tnode, tout>>
mergeVars == <<loop>>
entriesVars == <<efirst>>
\* The variables of the specifications further down, which the ones above
\* leave alone.
restVars == <<lockVars, gateVars, retryVars, proxyVars, cycleVars, adapterVars, pipeVars, poolVars, deliverVars, overlapVars, imgVars, iframeVars, parseVars, treeVars, mergeVars, entriesVars>>
\* What the steps of each of these specifications leave alone, feeds and db aside.
lockRest == <<notices, monVars, regVars, schedVars, gateVars, retryVars, proxyVars, cycleVars, adapterVars, pipeVars, poolVars, deliverVars, overlapVars, imgVars, iframeVars, parseVars, treeVars, mergeVars, entriesVars>>
lockOthers == <<db, lockRest>>
gateRest == <<notices, monVars, regVars, schedVars, lockVars, retryVars, proxyVars, cycleVars, adapterVars, pipeVars, poolVars, deliverVars, overlapVars, imgVars, iframeVars, parseVars, treeVars, mergeVars, entriesVars>>
retryRest == <<notices, monVars, regVars, schedVars, lockVars, gateVars, proxyVars, cycleVars, adapterVars, pipeVars, poolVars, deliverVars, overlapVars, imgVars, iframeVars, parseVars, treeVars, mergeVars, entriesVars>>
proxyRest == <<notices, monVars, regVars, schedVars, lockVars, gateVars, retryVars, cycleVars, adapterVars, pipeVars, poolVars, deliverVars, overlapVars, imgVars, iframeVars, parseVars, treeVars, mergeVars, entriesVars>>
cycleRest == <<notices, monVars, regVars, schedVars, lockVars, gateVars, retryVars, proxyVars, adapterVars, pipeVars, poolVars, deliverVars, overlapVars, imgVars, iframeVars, parseVars, treeVars, mergeVars, entriesVars>>
adapterRest == <<notices, monVars, regVars, schedVars, lockVars, gateVars, retryVars, proxyVars, cycleVars, pipeVars, poolVars, deliverVars, overlapVars, imgVars, iframeVars, parseVars, treeVars, mergeVars, entriesVars>>
pipeRest == <<notices, monVars, regVars, schedVars, lockVars, gateVars, retryVars, proxyVars, cycleVars, adapterVars, poolVars, deliverVars, overlapVars, imgVars, iframeVars, parseVars, treeVars, mergeVars, entriesVars>>
poolRest == <<notices, monVars, regVars, schedVars, lockVars, gateVars, retryVars, proxyVars, cycleVars, adapterVars, pipeVars, deliverVars, overlapVars, imgVars, iframeVars, parseVars, treeVars, mergeVars, entriesVars>>
deliverRest == <<notices, monVars, regVars, schedVars, lockVars, gateVars, retryVars, proxyVars, cycleVars, adapterVars, pipeVars, poolVars, overlapVars, imgVars, iframeVars, parseVars, treeVars, mergeVars, entriesVars>>
overlapRest == <<notices, monVars, regVars, schedVars, lockVars, gateVars, retryVars, proxyVars, cycleVars, adapterVars, pipeVars, poolVars, deliverVars, imgVars, iframeVars, parseVars, treeVars, mergeVars, entriesVars>>
imgRest == <<notices, monVars, regVars, schedVars, lockVars, gateVars, retryVars, proxyVars, cycleVars, adapterVars, pipeVars, poolVars, deliverVars, overlapVars, iframeVars, parseVars, treeVars, mergeVars, entriesVars>>
iframeRest == <<notices, monVars, regVars, schedVars, lockVars, gateVars, retryVars, proxyVars, cycleVars, adapterVars, pipeVars, poolVars, deliverVars, overlapVars, imgVars, parseVars, treeVars, mergeVars, entriesVars>>
parseRest == <<notices, monVars, regVars, schedVars, lockVars, gateVars, retryVars, proxyVars, cycleVars, adapterVars, pipeVars, poolVars, deliverVars, overlapVars, imgVars, iframeVars, treeVars, mergeVars, entriesVars>>
treeRest == <<notices, monVars, regVars, schedVars, lockVars, gateVars, retryVars, proxyVars, cycleVars, adapterVars, pipeVars, poolVars, deliverVars, overlapVars, imgVars, iframeVars, parseVars, mergeVars, entriesVars>>
mergeRest == <<notices, monVars, regVars, schedVars, lockVars, gateVars, retryVars, proxyVars, cycleVars, adapterVars, pipeVars, poolVars, deliverVars, overlapVars, imgVars, iframeVars, parseVars, treeVars, entriesVars>>
entriesRest == <<notices, monVars, regVars, schedVars, lockVars, gateVars, retryVars, proxyVars, cycleVars, adapterVars, pipeVars, poolVars, deliverVars, overlapVars, imgVars, iframeVars, parseVars, treeVars, mergeVars>>

----------------------------------------------------------------------------
(* Bounds *)
MaxEntries == 3     \* longest entry list a fetch returns
MaxPending == 1     \* a poll begins only with at most this many queued tasks
MaxNotices == 1     \* messages to users are counted up to this number

(* Python values *)
None == "None"
NoneInt == -1       \* None where the code holds Optional[int]

Keys == {"k1", "k2", "k3"}

\* Entries of the feed-format parser: 'guid' may be missing, 'link' is there.
\* Two of them have no guid, one has a link that is another entry's diff key,
\* and two share a diff key.
EntryPool ==
    { [guid |-> None, link |-> "k1"], [guid |-> "k2", link |-> "k1"],
      [guid |-> "k3", link |-> "k2"], [guid |-> None, link |-> "k2"] }

RECURSIVE SeqsUpTo(_, _)
SeqsUpTo(S, n) ==
    IF n = 0 THEN {<<>>}
    ELSE LET shorter == SeqsUpTo(S, n - 1)
         IN  shorter \cup {Append(s, x) : s \in {t \in shorter : Len(t) = n - 1}, x \in S}

\* What feedparser.parse makes of a body: the feed title (present or not) and
\* the entries; a body that is no feed parses to no entries.
Bodies == [title : BOOLEAN, entries : SeqsUpTo(EntryPool, MaxEntries)]

\* Everything a fetch can end in: a response (the bodies of the statuses
\* other than 200 are the short ones), or an exception out of the fetcher.
FetchOutcomes ==
    [kind : {"response"}, status : {200}, body : Bodies]
    \cup [kind : {"response"}, status : {304, 404},
          body : {b \in Bodies : Len(b.entries) <= 1}]
    \cup {[kind |-> "timeout"], [kind |-> "client_error"], [kind |-> "exception"]}

NoRss == [ok |-> FALSE]
NoOutcome == [kind |-> "none", status |-> 0, entries |-> FALSE]

MonFid == 0
MonName == "feed"
MonLink == "http://feed"

----------------------------------------------------------------------------
(* Pure functions of the code *)

\* The link taken even when a guid is there.
DiffKeyLinkFirst(e) == e.link

\* str(entry['guid'] if 'guid' in entry else entry['link']); the values are
\* strings already, on which str() changes nothing.
DiffKey(e) == IF e.guid # None THEN e.guid ELSE e.link

\* web.get: the body is read only for status 200.
get(o) == IF o.status = 200 THEN [some |-> TRUE, content |-> o.body]
          ELSE [some |-> FALSE]

\* web.get_async as feed_get_async uses it: the content of web.get.
get_async(o) == get(o)

\* The message sent whether or not a uid was given.
feed_get_async_always_notifies(o, uid) ==
    IF o.kind \in {"timeout", "client_error"}
    THEN [rss_d |-> NoRss, notice |-> "network_error"]
    ELSE IF o.kind = "exception" \/ ~get_async(o).some
    THEN [rss_d |-> NoRss, notice |-> "internal_error"]
    ELSE IF get_async(o).content.entries = <<>>
    THEN [rss_d |-> NoRss, notice |-> "feed_error"]
    ELSE [rss_d |-> [ok |-> TRUE, title |-> get_async(o).content.title,
                     entries |-> get_async(o).content.entries],
          notice |-> None]

\* The feed judged by its title, as web.feed_get does (web.py:176-179).
feed_get_async_title_only(o, uid) ==
    IF o.kind \in {"timeout", "client_error"}
    THEN [rss_d |-> NoRss, notice |-> IF uid # 0 THEN "network_error" ELSE None]
    ELSE IF o.kind = "exception" \/ ~get_async(o).some
    THEN [rss_d |-> NoRss, notice |-> IF uid # 0 THEN "internal_error" ELSE None]
    ELSE IF ~get_async(o).content.title
    THEN [rss_d |-> NoRss, notice |-> IF uid # 0 THEN "feed_error" ELSE None]
    ELSE [rss_d |-> [ok |-> TRUE, title |-> get_async(o).content.title,
                     entries |-> get_async(o).content.entries],
          notice |-> None]

\* feed_get_async: rss_d or None, and the message sent to uid (if any).
feed_get_async(o, uid) ==
    IF o.kind \in {"timeout", "client_error"}
    THEN [rss_d |-> NoRss, notice |-> IF uid # 0 THEN "network_error" ELSE None]
    ELSE IF o.kind = "exception" \/ ~get_async(o).some
    THEN [rss_d |-> NoRss, notice |-> IF uid # 0 THEN "internal_error" ELSE None]
    ELSE IF get_async(o).content.entries = <<>>
    THEN [rss_d |-> NoRss, notice |-> IF uid # 0 THEN "feed_error" ELSE None]
    ELSE [rss_d |-> [ok |-> TRUE, title |-> get_async(o).content.title,
                     entries |-> get_async(o).content.entries],
          notice |-> None]

\* A marker that is not found taken as "everything is new".
ScanEndOrAll(entries, last, i) ==
    IF \E j \in 1..Len(entries) : last = DiffKey(entries[j])
    THEN CHOOSE j \in 0..(Len(entries) - 1) :
            /\ last = DiffKey(entries[j + 1])
            /\ \A k \in 0..(j - 1) : last # DiffKey(entries[k + 1])
    ELSE Len(entries)

\* The loop of feed.py:53-57: first index (0-based) whose diff key is `last`.
RECURSIVE ScanEnd(_, _, _)
ScanEnd(entries, last, i) ==
    IF i >= Len(entries) THEN NoneInt
    ELSE IF last = DiffKey(entries[i + 1]) THEN i
    ELSE ScanEnd(entries, last, i + 1)

\* Python s[start:end] for start >= 0 and end None or >= 0.
PySlice(s, start, end) ==
    LET stop == IF end = NoneInt \/ end > Len(s) THEN Len(s) ELSE end
    IN  IF start >= stop THEN <<>> ELSE SubSeq(s, start + 1, stop)

RECURSIVE Reversed(_)
Reversed(s) == IF s = <<>> THEN <<>> ELSE Append(Reversed(Tail(s)), Head(s))

\* The slice submitted in feed order.
send_in_feed_order(entries, start, end, reverse) == PySlice(entries, start, end)

\* Feed.send up to the loop: the entries it is going to submit, in order.
send(entries, start, end, reverse) ==
    LET st == IF start >= Len(entries) THEN 0 ELSE start
        en == IF start >= Len(entries) THEN 1
              ELSE IF end # NoneInt /\ start > 0 /\ start >= end THEN start + 1
              ELSE end
        slice == PySlice(entries, st, en)
    IN  IF reverse THEN Reversed(slice) ELSE slice

\* env.bot.send_message, counted.
Noticed(n) == IF n < MaxNotices THEN n + 1 ELSE n

\* Persistence collaborator.
db_write(d, name, link, last) ==
    [n \in DOMAIN d \cup {name} |-> IF n = name THEN [link |-> link, last |-> last] ELSE d[n]]

db_delete(d, name) == [n \in DOMAIN d \ {name} |-> d[n]]

\* Feeds.__init__: fid from enumerate(db.read_all().items()).
RECURSIVE LoadFeeds(_, _, _)
LoadFeeds(d, names, fid) ==
    IF names = {} THEN <<>>
    ELSE LET n == CHOOSE x \in names : TRUE
             rest == LoadFeeds(d, names \ {n}, fid + 1)
         IN  [f \in DOMAIN rest \cup {fid} |->
                 IF f = fid THEN [name |-> n, link |-> d[n].link, last |-> d[n].last]
                 ELSE rest[f]]

FeedsInit(d) == LoadFeeds(d, DOMAIN d, 0)

----------------------------------------------------------------------------
(* Feed.monitor_async *)

RegIdle == /\ cpc = <<>> /\ cargs = <<>> /\ cres = <<>>
LockIdle == /\ lock = [writer |-> 0, readers |-> {}] /\ tpc = <<>> /\ targ = <<>>
GateIdle == /\ gfree = <<>> /\ gwait = <<>> /\ gfly = <<>> /\ glast = <<>>
RetryIdle == /\ rpc = <<>> /\ rattempt = <<>> /\ rlast = <<>>
ProxyIdle == /\ purl = <<>> /\ pres = <<>>
CycleIdle == /\ polls = <<>> /\ cyc = <<>>
AdapterIdle == /\ ain = <<>> /\ ares = <<>>
PipeIdle == /\ batch = <<>> /\ gen_queue = <<>> /\ gen_busy = {} /\ send_queue = <<>> /\ send_busy = {} /\ deliveries = <<>>
PoolIdle == /\ gen_pool = <<>> /\ callbacks = 0 /\ send_pool = <<>> /\ mark = <<>>
DeliverIdle == posts = <<>> /\ send_calls = <<>>
OverlapIdle == published = 0 /\ opolls = <<>> /\ flast = 0 /\ fdb = 0 /\ fbatch = <<>>
ImgIdle == img = <<>> /\ iout = <<>>
IframeIdle == ifr = <<>> /\ ifetch = <<>> /\ igate = 0
ParseIdle == dom = <<>> /\ runs = <<>>
TreeIdle == tnode = <<>> /\ tout = <<>>
MergeIdle == loop = <<>>
EntriesIdle == efirst = <<>>
RestIdle == LockIdle /\ GateIdle /\ RetryIdle /\ ProxyIdle /\ CycleIdle /\ AdapterIdle /\ PipeIdle /\ PoolIdle /\ DeliverIdle /\ OverlapIdle /\ ImgIdle /\ IframeIdle /\ ParseIdle /\ TreeIdle /\ MergeIdle /\ EntriesIdle
\* All of them but the group g.
RestIdleBut(g) ==
    /\ (g = "lock" \/ LockIdle)
    /\ (g = "gate" \/ GateIdle)
    /\ (g = "retry" \/ RetryIdle)
    /\ (g = "proxy" \/ ProxyIdle)
    /\ (g = "cycle" \/ CycleIdle)
    /\ (g = "adapter" \/ AdapterIdle)
    /\ (g = "pipe" \/ PipeIdle)
    /\ (g = "pool" \/ PoolIdle)
    /\ (g = "deliver" \/ DeliverIdle)
    /\ (g = "overlap" \/ OverlapIdle)
    /\ (g = "img" \/ ImgIdle)
    /\ (g = "iframe" \/ IframeIdle)
    /\ (g = "parse" \/ ParseIdle)
    /\ (g = "tree" \/ TreeIdle)
    /\ (g = "merge" \/ MergeIdle)
    /\ (g = "entries" \/ EntriesIdle)
SchedIdle == /\ delay = 60 /\ minute = 0 /\ window = <<>> /\ sret = "-"
MonIdle ==
    /\ mpc = "idle" /\ rss = NoRss /\ fetched = NoOutcome /\ mprev = None
    /\ toSend = <<>> /\ ret = "-" /\ genq = <<>>
    /\ last0 = None /\ db0 = <<>> /\ sent = <<>> /\ wrote = FALSE
    /\ crashRss = NoRss /\ replay = [on |-> FALSE, n |-> 0]

Init ==
    /\ \E l \in Keys : db = db_write(<<>>, MonName, MonLink, l)
    /\ feeds = FeedsInit(db)
    /\ notices = 0
    /\ mpc = "idle" /\ rss = NoRss /\ fetched = NoOutcome /\ mprev = None
    /\ toSend = <<>> /\ ret = "-" /\ genq = <<>>
    /\ last0 = feeds[MonFid].last /\ db0 = db /\ sent = <<>> /\ wrote = FALSE
    /\ crashRss = NoRss /\ replay = [on |-> FALSE, n |-> 0]
    /\ RegIdle /\ SchedIdle /\ RestIdle

\* feed.py:33-40: the fetch and the comparison with the marker.
MonitorFetch ==
    /\ mpc = "idle"
    /\ Len(genq) <= MaxPending
    /\ \E o \in FetchOutcomes :
        LET r == feed_get_async(o, 0)
            rss_d == r.rss_d
        IN  /\ fetched' = [kind |-> o.kind,
                            status |-> IF o.kind = "response" THEN o.status ELSE 0,
                            entries |-> o.kind = "response" /\ o.body.entries # <<>>]
            /\ notices' = IF r.notice # None THEN Noticed(notices) ELSE notices
            /\ last0' = feeds[MonFid].last /\ db0' = db /\ sent' = <<>> /\ wrote' = FALSE
            /\ IF rss_d.ok
               THEN /\ replay' = [on |-> crashRss.ok /\ rss_d = crashRss.rss,
                                  n |-> IF crashRss.ok THEN crashRss.n ELSE 0]
                    /\ crashRss' = NoRss
               ELSE /\ replay' = [on |-> FALSE, n |-> 0]
                    /\ crashRss' = crashRss
            /\ IF ~rss_d.ok
               THEN /\ ret' = "False" /\ mpc' = "returned" /\ rss' = NoRss
               ELSE IF feeds[MonFid].last = DiffKey(rss_d.entries[1])
               THEN /\ ret' = "None" /\ mpc' = "returned" /\ rss' = rss_d
               ELSE /\ ret' = "-" /\ mpc' = "setlast" /\ rss' = rss_d
    /\ UNCHANGED <<feeds, db, mprev, toSend, genq>>
    /\ UNCHANGED <<regVars, schedVars, restVars>>

\* feed.py:42-43: last = self.last; self.last = feed_last.
MonitorSetLast ==
    /\ mpc = "setlast"
    /\ mprev' = feeds[MonFid].last
    /\ feeds' = [feeds EXCEPT ![MonFid].last = DiffKey(rss.entries[1])]
    /\ mpc' = "dbwrite"
    /\ UNCHANGED <<db, notices, rss, fetched, toSend, ret, genq,
                   last0, db0, sent, wrote, crashRss, replay>>
    /\ UNCHANGED <<regVars, schedVars, restVars>>

\* The marker write left out.
MonitorDbWriteSkipped ==
    /\ mpc = "dbwrite"
    /\ wrote' = TRUE
    /\ mpc' = "scan"
    /\ UNCHANGED <<feeds, db, notices, rss, fetched, mprev, toSend, ret, genq,
                   last0, db0, sent, crashRss, replay>>
    /\ UNCHANGED <<regVars, schedVars, restVars>>

\* feed.py:44: db.write(self.name, self.link, feed_last, True).
MonitorDbWrite ==
    /\ mpc = "dbwrite"
    /\ db' = db_write(db, feeds[MonFid].name, feeds[MonFid].link, DiffKey(rss.entries[1]))
    /\ wrote' = TRUE
    /\ mpc' = "scan"
    /\ UNCHANGED <<feeds, notices, rss, fetched, mprev, toSend, ret, genq,
                   last0, db0, sent, crashRss, replay>>
    /\ UNCHANGED <<regVars, schedVars, restVars>>

\* feed.py:53-64 and Feed.send up to its loop (feed.py:67-79).  The loop
\* reads rss_d.feed.title in its first round, which raises when the parsed
\* feed has no title.
MonitorScan ==
    /\ mpc = "scan"
    /\ LET end == ScanEnd(rss.entries, mprev, 0)
       IN  IF end = NoneInt \/ end = 0
           THEN /\ toSend' = <<>> /\ ret' = "True" /\ mpc' = "returned"
           ELSE LET entries_to_send == send(rss.entries, 0, end, TRUE)
                IN  IF entries_to_send = <<>>
                    THEN /\ toSend' = <<>> /\ ret' = "True" /\ mpc' = "returned"
                    ELSE IF ~rss.title
                    THEN /\ toSend' = <<>> /\ ret' = "raised" /\ mpc' = "returned"
                    ELSE /\ toSend' = entries_to_send /\ ret' = "-" /\ mpc' = "submit"
    /\ UNCHANGED <<feeds, db, notices, rss, fetched, mprev, genq,
                   last0, db0, sent, wrote, crashRss, replay>>
    /\ UNCHANGED <<regVars, schedVars, restVars>>

\* feed.py:81-83: one round of the loop of Feed.send.
MonitorSubmit ==
    /\ mpc = "submit"
    /\ genq' = Append(genq, Head(toSend))
    /\ sent' = Append(sent, Head(toSend))
    /\ toSend' = Tail(toSend)
    /\ IF Tail(toSend) = <<>>
       THEN /\ ret' = "True" /\ mpc' = "returned"
       ELSE /\ ret' = "-" /\ mpc' = "submit"
    /\ UNCHANGED <<feeds, db, notices, rss, fetched, mprev,
                   last0, db0, wrote, crashRss, replay>>
    /\ UNCHANGED <<regVars, schedVars, restVars>>

\* The result of the poll is taken by its caller (feed.py:132-145); the
\* locals of the poll are gone.
MonitorReturn ==
    /\ mpc = "returned"
    /\ mpc' = "idle" /\ rss' = NoRss /\ fetched' = NoOutcome /\ mprev' = None
    /\ toSend' = <<>> /\ ret' = "-"
    /\ last0' = feeds[MonFid].last /\ db0' = db /\ sent' = <<>> /\ wrote' = FALSE
    /\ replay' = [on |-> FALSE, n |-> 0]
    /\ UNCHANGED <<feeds, db, notices, genq, crashRss>>
    /\ UNCHANGED <<regVars, schedVars, restVars>>

\* A worker of Feed._generate_pool takes the oldest pending task.
GenerateTake ==
    /\ genq # <<>>
    /\ genq' = Tail(genq)
    /\ UNCHANGED <<feeds, db, notices, mpc, rss, fetched, mprev, toSend, ret,
                   last0, db0, sent, wrote, crashRss, replay>>
    /\ UNCHANGED <<regVars, schedVars, restVars>>

\* The process stops and is started again: everything in memory is gone and
\* Feeds.__init__ reloads the registry from the persistence collaborator.
Restart ==
    /\ feeds' = FeedsInit(db)
    /\ mpc' = "idle" /\ rss' = NoRss /\ fetched' = NoOutcome /\ mprev' = None
    /\ toSend' = <<>> /\ ret' = "-" /\ genq' = <<>>
    /\ last0' = db[MonName].last /\ db0' = db /\ sent' = <<>> /\ wrote' = FALSE
    /\ crashRss' = IF wrote /\ rss.ok
                   THEN [ok |-> TRUE, rss |-> rss, n |-> Len(sent)]
                   ELSE NoRss
    /\ replay' = [on |-> FALSE, n |-> 0]
    /\ UNCHANGED <<db, notices>>
    /\ UNCHANGED <<regVars, schedVars, restVars>>

Next ==
    \/ MonitorFetch
    \/ MonitorSetLast
    \/ MonitorDbWrite
    \/ MonitorScan
    \/ MonitorSubmit
    \/ MonitorReturn
    \/ GenerateTake
    \/ Restart

Spec == Init /\ [][Next]_vars

----------------------------------------------------------------------------
(* Properties of Feed.monitor_async, checked under Spec *)

\* The diff key as the specification words it: guid if present, else link.
EntryKey(e) == IF e.guid = None THEN e.link ELSE e.guid

\* 1-based position of the first entry whose diff key is L, 0 when there is none.
MarkerIndex(entries, L) ==
    IF \E i \in 1..Len(entries) : EntryKey(entries[i]) = L
    THEN CHOOSE i \in 1..Len(entries) :
            /\ EntryKey(entries[i]) = L
            /\ \A j \in 1..(i - 1) : EntryKey(entries[j]) # L
    ELSE 0

PollReturned == mpc = "returned"
\* The step is the fetch of a poll.
FetchStep == mpc = "idle" /\ mpc' # "idle"

\* C1: a poll of a feed with marker L whose fetch succeeded (a titled feed)
\* with L first at 0-based index i > 0 submits exactly entries 0..i-1, each
\* once, entry i-1 first and entry 0 last, and leaves Feed.last at the diff
\* key of entries[0].
C1_NewEntriesOldestFirst ==
    (PollReturned /\ rss.ok /\ rss.title /\ MarkerIndex(rss.entries, last0) > 1)
    => LET n == MarkerIndex(rss.entries, last0) - 1
       IN  /\ ret = "True"
           /\ sent = [j \in 1..n |-> rss.entries[n + 1 - j]]
           /\ feeds[MonFid].last = EntryKey(rss.entries[1])

C1_Witness ==
    /\ PollReturned /\ rss.ok /\ rss.title
    /\ MarkerIndex(rss.entries, last0) = 3
    /\ Len(sent) = 2 /\ sent[1] # sent[2]

\* C2: when the marker is the diff key of no fetched entry, the poll submits
\* nothing and advances Feed.last, in memory and in the persistence
\* collaborator, to the diff key of entries[0].
C2_MarkerNotFound ==
    (PollReturned /\ rss.ok /\ MarkerIndex(rss.entries, last0) = 0)
    => /\ sent = <<>>
       /\ feeds[MonFid].last = EntryKey(rss.entries[1])
       /\ db[MonName].last = EntryKey(rss.entries[1])

C2_Witness ==
    /\ PollReturned /\ rss.ok /\ MarkerIndex(rss.entries, last0) = 0
    /\ Len(rss.entries) = MaxEntries /\ feeds[MonFid].last # last0

\* C3: when the diff key of the fetched top entry equals Feed.last the poll is
\* a no-op: nothing submitted, Feed.last and the persisted state as before, no
\* persistence write, outcome 'not updated' (None).
C3_TopUnchangedIsNoOp ==
    (PollReturned /\ rss.ok /\ EntryKey(rss.entries[1]) = last0)
    => /\ ret = "None"
       /\ sent = <<>>
       /\ feeds[MonFid].last = last0
       /\ db = db0 /\ ~wrote

C3_Witness ==
    /\ PollReturned /\ rss.ok /\ EntryKey(rss.entries[1]) = last0
    /\ rss.entries[1].guid # None /\ rss.entries[1].link # last0
    /\ ret = "None"

\* C4: a poll whose fetch returns HTTP 304 leaves Feed.last, the persisted
\* marker and the dispatch queue unchanged and ends as 'no update' (None).
C4_NotModifiedIsNoUpdate ==
    [][(FetchStep /\ fetched'.kind = "response" /\ fetched'.status = 304)
       => (ret' = "None" /\ UNCHANGED <<feeds, db, genq>>)]_vars

\* InvalidFeed (a body without entries) or NetworkError.
FetchFailed(f) ==
    \/ f.kind \in {"timeout", "client_error"}
    \/ f.kind = "response" /\ f.status = 200 /\ ~f.entries

C6_AtMostOnceAcrossRestart ==
    /\ (sent # <<>> => (wrote /\ db[MonName].last = EntryKey(rss.entries[1])))
    /\ (replay.on => sent = <<>>)

C6_Witness ==
    /\ replay.on /\ replay.n > 0 /\ PollReturned /\ ret = "None"

\* C25: the marker in memory is never ahead of the persisted one: while
\* the two differ, Feed.last is still the marker the poll began with (the
\* durable write comes first).
C25_DurableWriteFirst ==
    feeds[MonFid].last # db[MonName].last => feeds[MonFid].last = last0

----------------------------------------------------------------------------
(* The registry: Feeds.find, add_feed_async, del_feed, current_fid.         *)
(* The registry is used from several threads (which is what its            *)
(* fasteners.ReaderWriterLock is for), so a call is atomic only while it   *)
(* holds the lock; between two acquisitions another caller can run.        *)

NumCallers == 2     \* bound: concurrent callers of the registry
MaxFid == 2         \* bound: no id beyond this one is handed out

Callers == 1..NumCallers
Names == {"a", "b"}
\* The (name, link) pairs asked to be added.
AddInputs == {<<"a", "u1">>, <<"b", "u2">>, <<"a", "u2">>}
\* The uid a caller passes: caller 1 is a user's command, the others are the
\* adds of an OPML import, which pass none (0).
UidOf(p) == IF p = 1 THEN 1 ELSE 0
NoFid == -1

\* What the fetch of an add can end in.
AddOutcomes ==
    { [kind |-> "timeout"],
      [kind |-> "response", status |-> 200, body |-> [title |-> TRUE, entries |-> <<>>]] }
    \cup { [kind |-> "response", status |-> 200,
             body |-> [title |-> TRUE, entries |-> <<[guid |-> "k2", link |-> "k1"]>>]] }

NoArgs == [op |-> "-"]

Min(S) == CHOOSE x \in S : \A y \in S : x <= y
Max(S) == CHOOSE x \in S : \A y \in S : x >= y

\* The strict flag ignored: name and link must both match.
find_always_strict(fs, name, link, strict) ==
    IF name = None /\ link = None THEN NoFid
    ELSE LET hits == {f \in DOMAIN fs :
                        /\ (name = None \/ fs[f].name = name)
                        /\ (link = None \/ fs[f].link = link)}
         IN  IF hits = {} THEN NoFid ELSE Min(hits)

\* Feeds.find: the first feed, in the order of the dict (ascending fid), that
\* matches; NoFid for None.
find(fs, name, link, strict) ==
    IF name = None /\ link = None THEN NoFid
    ELSE LET hits == {f \in DOMAIN fs :
                        IF strict
                        THEN /\ (name = None \/ fs[f].name = name)
                             /\ (link = None \/ fs[f].link = link)
                        ELSE fs[f].name = name \/ fs[f].link = link}
         IN  IF hits = {} THEN NoFid ELSE Min(hits)

\* Feeds.current_fid
current_fid(fs) == IF DOMAIN fs # {} THEN Max(DOMAIN fs) + 1 ELSE 1

RegInit ==
    /\ db \in {<<>>, db_write(<<>>, "a", "u1", "k2")}
    /\ feeds = FeedsInit(db)
    /\ notices = 0
    /\ cpc = [p \in Callers |-> "idle"]
    /\ cargs = [p \in Callers |-> NoArgs]
    /\ cres = [p \in Callers |-> "-"]
    /\ MonIdle /\ SchedIdle /\ RestIdle

\* add_feed_async, feed.py:163-167: the uniqueness check.
AddCall(p) ==
    /\ cpc[p] = "idle"
    /\ \E name \in Names, link \in {"u1", "u2"} :
        /\ <<name, link>> \in AddInputs
        /\ cargs' = [cargs EXCEPT ![p] = [op |-> "add", name |-> name, link |-> link]]
        /\ IF find(feeds, name, link, FALSE) # NoFid
           THEN /\ notices' = IF UidOf(p) # 0 THEN Noticed(notices) ELSE notices
                /\ cres' = [cres EXCEPT ![p] = "rejected"]
                /\ cpc' = [cpc EXCEPT ![p] = "returned"]
           ELSE /\ notices' = notices
                /\ cres' = cres
                /\ cpc' = [cpc EXCEPT ![p] = "add_fetch"]
    /\ UNCHANGED <<feeds, db>>
    /\ UNCHANGED <<monVars, schedVars, restVars>>

\* add_feed_async, feed.py:168-173: the fetch returns; the new feed and its id.
AddFetch(p) ==
    /\ cpc[p] = "add_fetch"
    /\ current_fid(feeds) <= MaxFid
    /\ \E o \in AddOutcomes :
        LET r == feed_get_async(o, UidOf(p))
        IN  /\ notices' = IF r.notice # None THEN Noticed(notices) ELSE notices
            /\ IF ~r.rss_d.ok
               THEN /\ cres' = [cres EXCEPT ![p] = "failed"]
                    /\ cpc' = [cpc EXCEPT ![p] = "returned"]
                    /\ cargs' = [cargs EXCEPT ![p] = NoArgs]
               ELSE /\ cres' = cres
                    /\ cpc' = [cpc EXCEPT ![p] = "add_insert"]
                    /\ cargs' = [cargs EXCEPT ![p] =
                                    [op |-> "add", name |-> cargs[p].name, link |-> cargs[p].link,
                                     last |-> DiffKey(r.rss_d.entries[1]),
                                     fid |-> current_fid(feeds)]]
    /\ UNCHANGED <<feeds, db>>
    /\ UNCHANGED <<monVars, schedVars, restVars>>

\* add_feed_async, feed.py:176-181: the insert under the write lock.
AddInsert(p) ==
    /\ cpc[p] = "add_insert"
    /\ feeds' = [f \in DOMAIN feeds \cup {cargs[p].fid} |->
                    IF f = cargs[p].fid
                    THEN [name |-> cargs[p].name, link |-> cargs[p].link, last |-> cargs[p].last]
                    ELSE feeds[f]]
    /\ db' = db_write(db, cargs[p].name, cargs[p].link, cargs[p].last)
    /\ cres' = [cres EXCEPT ![p] = "accepted"]
    /\ cpc' = [cpc EXCEPT ![p] = "returned"]
    /\ cargs' = [cargs EXCEPT ![p] = NoArgs]
    /\ UNCHANGED notices
    /\ UNCHANGED <<monVars, schedVars, restVars>>

\* del_feed, feed.py:184-186: the lookup under the read lock.
DelCall(p) ==
    /\ cpc[p] = "idle"
    /\ \E name \in Names :
        LET feed_to_delete == find(feeds, name, None, TRUE)
        IN  IF feed_to_delete = NoFid
            THEN /\ cargs' = cargs
                 /\ cres' = [cres EXCEPT ![p] = "none"]
                 /\ cpc' = [cpc EXCEPT ![p] = "returned"]
            ELSE /\ cargs' = [cargs EXCEPT ![p] = [op |-> "del", name |-> name, fid |-> feed_to_delete]]
                 /\ cres' = cres
                 /\ cpc' = [cpc EXCEPT ![p] = "del_pop"]
    /\ UNCHANGED <<feeds, db, notices>>
    /\ UNCHANGED <<monVars, schedVars, restVars>>

\* del_feed, feed.py:189-194: the removal under the write lock; dict.pop of a
\* key that is gone raises KeyError.
DelPop(p) ==
    /\ cpc[p] = "del_pop"
    /\ IF cargs[p].fid \in DOMAIN feeds
       THEN /\ feeds' = [f \in DOMAIN feeds \ {cargs[p].fid} |-> feeds[f]]
            /\ db' = db_delete(db, cargs[p].name)
            /\ cres' = [cres EXCEPT ![p] = "removed"]
       ELSE /\ UNCHANGED <<feeds, db>>
            /\ cres' = [cres EXCEPT ![p] = "raised"]
    /\ cpc' = [cpc EXCEPT ![p] = "returned"]
    /\ cargs' = [cargs EXCEPT ![p] = NoArgs]
    /\ UNCHANGED notices
    /\ UNCHANGED <<monVars, schedVars, restVars>>

\* The caller has its result and is free to call again.  (Of the arguments
\* only those of an add refused for an existing feed are kept until here.)
Return(p) ==
    /\ cpc[p] = "returned"
    /\ cpc' = [cpc EXCEPT ![p] = "idle"]
    /\ cargs' = [cargs EXCEPT ![p] = NoArgs]
    /\ cres' = [cres EXCEPT ![p] = "-"]
    /\ UNCHANGED <<feeds, db, notices>>
    /\ UNCHANGED <<monVars, schedVars, restVars>>

RegNext ==
    \E p \in Callers :
        \/ AddCall(p)
        \/ AddFetch(p)
        \/ AddInsert(p)
        \/ DelCall(p)
        \/ DelPop(p)
        \/ Return(p)

RegSpec == RegInit /\ [][RegNext]_vars

----------------------------------------------------------------------------
(* Properties of the registry, checked under RegSpec *)

NameOrLinkTaken(fs, name, link) ==
    \E f \in DOMAIN fs : fs[f].name = name \/ fs[f].link = link

\* The step is caller p calling add_feed_async.
AddCallStep(p) == cpc[p] = "idle" /\ cpc'[p] # "idle" /\ cargs'[p].op = "add"

\* C8: add_feed_async called with the name or the link of an existing feed
\* returns the rejected result at once, without a fetch, and leaves the
\* registry and the persistence collaborator as they were.
C8_CollidingAddRejected ==
    [][\A p \in Callers :
        (AddCallStep(p) /\ NameOrLinkTaken(feeds, cargs'[p].name, cargs'[p].link))
        => (cres'[p] = "rejected" /\ cpc'[p] = "returned" /\ UNCHANGED <<feeds, db>>)]_vars

C8_Witness ==
    \E p \in Callers :
        /\ cpc[p] = "returned" /\ cres[p] = "rejected" /\ cargs[p].op = "add"
        /\ \E f \in DOMAIN feeds : feeds[f].name = cargs[p].name /\ feeds[f].link # cargs[p].link
        /\ \E f \in DOMAIN feeds : feeds[f].link = cargs[p].link /\ feeds[f].name # cargs[p].name

\* C9: every accepted add makes the registry one feed larger, every del_feed
\* that returns a feed makes it one feed smaller, and a del_feed of a name
\* that is not (or no longer) there returns None without raising and without
\* changing the registry or the persistence collaborator.
C9_SizeAccounting ==
    [][\A p \in Callers :
        (cpc[p] # "returned" /\ cpc'[p] = "returned")
        => /\ cres'[p] # "raised"
           /\ cres'[p] = "accepted"
                => Cardinality(DOMAIN feeds') = Cardinality(DOMAIN feeds) + 1
           /\ cres'[p] = "removed"
                => Cardinality(DOMAIN feeds') = Cardinality(DOMAIN feeds) - 1
           /\ cres'[p] = "none" => UNCHANGED <<feeds, db>>]_vars

\* C10: the registry never holds two feeds with the same name or two feeds
\* with the same link.
C10_UniqueNamesAndLinks ==
    \A f, g \in DOMAIN feeds :
        f # g => (feeds[f].name # feeds[g].name /\ feeds[f].link # feeds[g].link)

\* C35: an accepted add gets an id no feed of the registry holds: the
\* insert of a feed replaces no feed of another name and another link, so
\* that every accepted feed stays in the registry until it is removed.
C35_UniqueFidNoLostAdd ==
    [][\A p \in Callers :
          (cpc[p] = "add_insert" /\ cpc'[p] = "returned" /\ cargs[p].fid \in DOMAIN feeds)
              => ~(/\ feeds[cargs[p].fid].name # cargs[p].name
                   /\ feeds[cargs[p].fid].link # cargs[p].link)]_vars

----------------------------------------------------------------------------
(* The bucket scheduler of Feeds.monitor_async *)

MaxDelayUnits == 14     \* bound: env.DELAY ranges over 1 s, 29 s, 30 s .. 30 s * this
MaxSchedFeeds == 3      \* bound: feeds in the registry snapshot

Delays == {1, 29} \cup {30 * k : k \in 1..MaxDelayUnits} \cup {3600, 7200}

\* Python round(n / d) for n >= 0, d > 0: halves go to the even neighbour.
PyRoundDiv(n, d) ==
    LET q == n \div d
        r == n % d
    IN  IF 2 * r < d THEN q
        ELSE IF 2 * r > d THEN q + 1
        ELSE IF q % 2 = 0 THEN q ELSE q + 1

\* Feeds._interval, feed.py:115
interval(d) == IF PyRoundDiv(d, 60) < 60 THEN PyRoundDiv(d, 60) ELSE 60

\* sorted(self) with Feed.__lt__: ascending fid.
RECURSIVE SortedFids(_)
SortedFids(S) == IF S = {} THEN <<>> ELSE <<Min(S)>> \o SortedFids(S \ {Min(S)})

\* s[head::step] for head >= 0, step >= 1, as a set.
PyStride(s, head, step) ==
    {s[i] : i \in {j \in 1..Len(s) : j - 1 >= head /\ (j - 1 - head) % step = 0}}

SchedInit ==
    /\ delay \in Delays
    /\ minute \in 0..59
    /\ \E n \in 0..MaxSchedFeeds :
        feeds = [f \in 0..(n - 1) |-> [name |-> "a", link |-> "u1", last |-> "k1"]]
    /\ db = <<>>
    /\ notices = 0
    /\ window = <<>>
    /\ sret = "-"
    /\ MonIdle /\ RegIdle /\ RestIdle

\* Feeds.monitor_async(fetch_all=False), feed.py:121-128, run once a minute.
MonitorCycle ==
    /\ IF interval(delay) = 0
       THEN /\ sret' = "ZeroDivisionError"
            /\ window' = <<>>
       ELSE LET sorted_feeds == SortedFids(DOMAIN feeds)
                head == minute % interval(delay)
                feeds_to_be_monitored == PyStride(sorted_feeds, head, interval(delay))
                w == Append(window, feeds_to_be_monitored)
            IN  /\ sret' = "ok"
                /\ window' = IF Len(w) > interval(delay) THEN Tail(w) ELSE w
    /\ minute' = (minute + 1) % 60
    /\ UNCHANGED <<feeds, db, notices, delay>>
    /\ UNCHANGED <<monVars, regVars, restVars>>

\* Feeds.monitor_async(fetch_all=True), feed.py:122-123: every feed is due.
MonitorAll ==
    /\ sret' = "all"
    /\ window' = <<>>
    /\ UNCHANGED <<feeds, db, notices, delay, minute>>
    /\ UNCHANGED <<monVars, regVars, restVars>>

SchedNext == MonitorCycle \/ MonitorAll

SchedSpec == SchedInit /\ [][SchedNext]_vars

\* C7: over `interval` consecutive minutes of bucket cycles every feed of the
\* registry is selected exactly once.
C7_CycleCoverage ==
    (interval(delay) >= 1 /\ Len(window) = interval(delay))
    => \A f \in DOMAIN feeds :
          Cardinality({j \in 1..Len(window) : f \in window[j]}) = 1

\* C39: for every configured delay the interval of the buckets is between
\* 1 and 60, and the computation of the bucket that is due does not fail.
C39_BucketDefined ==
    /\ interval(delay) \in 1..60
    /\ sret # "ZeroDivisionError"

----------------------------------------------------------------------------
(* Feeds._lock: which accesses of Feeds._feeds happen under which lock.     *)
(* A thread is at a position "..._read"/"..._write" while it holds the lock *)
(* it took there, and at "mon_gather"/"iter_use" while it runs through what *)
(* it got under a lock it has released since.                               *)

NumThreads == 2     \* bound: threads using the registry

Threads == 1..NumThreads
NoLocals == [name |-> None, fid |-> NoFid, view |-> FALSE, size |-> 0]

\* fasteners.ReaderWriterLock: a reader enters unless another thread writes,
\* a writer enters when nobody reads or writes.
CanRead(t) == lock.writer \in {0, t}
CanWrite(t) == lock.writer = 0 /\ lock.readers = {}
ReadLocked(t) == [lock EXCEPT !.readers = @ \cup {t}]
ReadUnlocked(t) == [lock EXCEPT !.readers = @ \ {t}]

LockInit ==
    /\ db \in {<<>>, db_write(<<>>, "a", "u1", "k2")}
    /\ feeds = FeedsInit(db)
    /\ notices = 0
    /\ lock = [writer |-> 0, readers |-> {}]
    /\ tpc = [t \in Threads |-> "idle"]
    /\ targ = [t \in Threads |-> NoLocals]
    /\ MonIdle /\ RegIdle /\ SchedIdle /\ RestIdleBut("lock")

\* A thread passes from position `from` to `to`, taking the read lock.
EnterRead(t, from, to) ==
    /\ tpc[t] = from
    /\ CanRead(t)
    /\ lock' = ReadLocked(t)
    /\ tpc' = [tpc EXCEPT ![t] = to]

\* Feeds.find (feed.py:150-158), decorated read_locked.
FindBegin(t) ==
    /\ EnterRead(t, "idle", "find_read")
    /\ UNCHANGED <<feeds, targ, lockOthers>>

FindEnd(t) ==
    /\ tpc[t] = "find_read"
    /\ lock' = ReadUnlocked(t)
    /\ tpc' = [tpc EXCEPT ![t] = "idle"]
    /\ UNCHANGED <<feeds, targ, lockOthers>>

\* del_feed, feed.py:184: self.find(name) takes the read lock.
DelBegin(t) ==
    /\ EnterRead(t, "idle", "del_read")
    /\ \E name \in Names : targ' = [targ EXCEPT ![t] = [NoLocals EXCEPT !.name = name]]
    /\ UNCHANGED <<feeds, lockOthers>>

\* feed.py:184-186: find returns and the read lock is released.
DelFound(t) ==
    /\ tpc[t] = "del_read"
    /\ lock' = ReadUnlocked(t)
    /\ LET feed_to_delete == find(feeds, targ[t].name, None, TRUE)
       IN  IF feed_to_delete = NoFid
           THEN /\ tpc' = [tpc EXCEPT ![t] = "idle"]
                /\ targ' = [targ EXCEPT ![t] = NoLocals]
           ELSE /\ tpc' = [tpc EXCEPT ![t] = "del_wait"]
                /\ targ' = [targ EXCEPT ![t].fid = feed_to_delete]
    /\ UNCHANGED <<feeds, lockOthers>>

\* feed.py:189: with self._lock.write_lock().
DelLock(t) ==
    /\ tpc[t] = "del_wait"
    /\ CanWrite(t)
    /\ lock' = [lock EXCEPT !.writer = t]
    /\ tpc' = [tpc EXCEPT ![t] = "del_write"]
    /\ UNCHANGED <<feeds, targ, lockOthers>>

\* feed.py:190-191 and the end of the with block (also left by KeyError).
DelUnlock(t) ==
    /\ tpc[t] = "del_write"
    /\ IF targ[t].fid \in DOMAIN feeds
       THEN /\ feeds' = [f \in DOMAIN feeds \ {targ[t].fid} |-> feeds[f]]
            /\ db' = db_delete(db, targ[t].name)
       ELSE UNCHANGED <<feeds, db>>
    /\ lock' = [lock EXCEPT !.writer = 0]
    /\ tpc' = [tpc EXCEPT ![t] = "idle"]
    /\ targ' = [targ EXCEPT ![t] = NoLocals]
    /\ UNCHANGED lockRest

\* add_feed_async, feed.py:164: self.find(name, link, strict=False).
AddBegin(t) ==
    /\ EnterRead(t, "idle", "add_read")
    /\ targ' = [targ EXCEPT ![t] = [NoLocals EXCEPT !.name = "b"]]
    /\ UNCHANGED <<feeds, lockOthers>>

\* feed.py:164-170: find returns; a new feed goes on to the fetch.
AddChecked(t) ==
    /\ tpc[t] = "add_read"
    /\ lock' = ReadUnlocked(t)
    /\ IF find(feeds, targ[t].name, "u2", FALSE) # NoFid
       THEN /\ tpc' = [tpc EXCEPT ![t] = "idle"]
            /\ targ' = [targ EXCEPT ![t] = NoLocals]
       ELSE /\ tpc' = [tpc EXCEPT ![t] = "add_fetched"]
            /\ targ' = targ
    /\ UNCHANGED <<feeds, lockOthers>>

\* feed.py:172: self.current_fid, a read_locked property.
AddFidBegin(t) ==
    /\ current_fid(feeds) <= MaxFid
    /\ EnterRead(t, "add_fetched", "fid_read")
    /\ UNCHANGED <<feeds, targ, lockOthers>>

AddFidEnd(t) ==
    /\ tpc[t] = "fid_read"
    /\ lock' = ReadUnlocked(t)
    /\ targ' = [targ EXCEPT ![t].fid = current_fid(feeds)]
    /\ tpc' = [tpc EXCEPT ![t] = "add_wait"]
    /\ UNCHANGED <<feeds, lockOthers>>

\* feed.py:176: with self._lock.write_lock().
AddLock(t) ==
    /\ tpc[t] = "add_wait"
    /\ CanWrite(t)
    /\ lock' = [lock EXCEPT !.writer = t]
    /\ tpc' = [tpc EXCEPT ![t] = "add_write"]
    /\ UNCHANGED <<feeds, targ, lockOthers>>

\* feed.py:177-178 and the end of the with block.
AddUnlock(t) ==
    /\ tpc[t] = "add_write"
    /\ feeds' = [f \in DOMAIN feeds \cup {targ[t].fid} |->
                    IF f = targ[t].fid
                    THEN [name |-> targ[t].name, link |-> "u2", last |-> "k1"]
                    ELSE feeds[f]]
    /\ db' = db_write(db, targ[t].name, "u2", "k1")
    /\ lock' = [lock EXCEPT !.writer = 0]
    /\ tpc' = [tpc EXCEPT ![t] = "idle"]
    /\ targ' = [targ EXCEPT ![t] = NoLocals]
    /\ UNCHANGED lockRest

\* Feeds.monitor_async, feed.py:121: with self._lock.read_lock().
MonBegin(t) ==
    /\ EnterRead(t, "idle", "mon_read")
    /\ UNCHANGED <<feeds, targ, lockOthers>>

\* feed.py:122-128 and the end of the with block: fetch_all keeps
\* self._feeds.values(), a view of the dict; otherwise a slice of the list
\* sorted(self) made under the lock.
MonSelected(t) ==
    /\ tpc[t] = "mon_read"
    /\ lock' = ReadUnlocked(t)
    /\ \E fetch_all \in BOOLEAN :
        targ' = [targ EXCEPT ![t] = [NoLocals EXCEPT !.view = fetch_all,
                                                     !.size = Cardinality(DOMAIN feeds)]]
    /\ tpc' = [tpc EXCEPT ![t] = "mon_gather"]
    /\ UNCHANGED <<feeds, lockOthers>>

\* feed.py:132: the generator over feeds_to_be_monitored has been run through.
MonGathered(t) ==
    /\ tpc[t] = "mon_gather"
    /\ tpc' = [tpc EXCEPT ![t] = "idle"]
    /\ targ' = [targ EXCEPT ![t] = NoLocals]
    /\ UNCHANGED <<feeds, lock, lockOthers>>

\* Feeds.__iter__ (feed.py:252-254), decorated read_locked.
IterBegin(t) ==
    /\ EnterRead(t, "idle", "iter_read")
    /\ UNCHANGED <<feeds, targ, lockOthers>>

\* __iter__ returns iter(self._feeds.values()) and the lock is released.
IterReturned(t) ==
    /\ tpc[t] = "iter_read"
    /\ lock' = ReadUnlocked(t)
    /\ targ' = [targ EXCEPT ![t] = [NoLocals EXCEPT !.view = TRUE,
                                                     !.size = Cardinality(DOMAIN feeds)]]
    /\ tpc' = [tpc EXCEPT ![t] = "iter_use"]
    /\ UNCHANGED <<feeds, lockOthers>>

\* The caller of __iter__ has run through the iterator.
IterUsed(t) ==
    /\ tpc[t] = "iter_use"
    /\ tpc' = [tpc EXCEPT ![t] = "idle"]
    /\ targ' = [targ EXCEPT ![t] = NoLocals]
    /\ UNCHANGED <<feeds, lock, lockOthers>>

LockNext ==
    \E t \in Threads :
        \/ FindBegin(t) \/ FindEnd(t)
        \/ DelBegin(t) \/ DelFound(t) \/ DelLock(t) \/ DelUnlock(t)
        \/ AddBegin(t) \/ AddChecked(t) \/ AddFidBegin(t) \/ AddFidEnd(t)
        \/ AddLock(t) \/ AddUnlock(t)
        \/ MonBegin(t) \/ MonSelected(t) \/ MonGathered(t)
        \/ IterBegin(t) \/ IterReturned(t) \/ IterUsed(t)

LockSpec == LockInit /\ [][LockNext]_vars

\* Thread t is reading or iterating the mapping / is changing it.
ReadsMapping(t) ==
    \/ tpc[t] \in {"find_read", "del_read", "add_read", "fid_read", "mon_read", "iter_read"}
    \/ tpc[t] \in {"mon_gather", "iter_use"} /\ targ[t].view
MutatesMapping(t) == tpc[t] \in {"add_write", "del_write"}

\* C11: the mapping is changed only by the holder of the write lock, read or
\* iterated only by a holder of the read lock, and while a thread holds the
\* write lock no other thread reads, iterates or changes the mapping.
C11_ReaderWriterExclusion ==
    /\ \A t \in Threads : MutatesMapping(t) => lock.writer = t
    /\ \A t \in Threads : ReadsMapping(t) => t \in lock.readers
    /\ \A w, t \in Threads :
          (lock.writer = w /\ t # w) => (~ReadsMapping(t) /\ ~MutatesMapping(t))

----------------------------------------------------------------------------
(* web.get and its semaphores (web.py:77-116).  The fetches are counted by  *)
(* where they are: waiting in acquire(), or past it and not yet finished.   *)

GateSize == 5       \* web.py:27 BoundedSemaphore(5); feed.py:130, 215 Semaphore(5)
MaxFetches == 6     \* bound: fetches that have been called and not finished

\* web._semaphore and a semaphore made by a caller (feed.py:130, 215).
Semaphores == {"global", "own"}
\* The argument `semaphore` of web.get: None or True, a semaphore of the
\* caller, False (html_parser.py:224).
SemaphoreArgs == {"global", "own", "none"}

\* What an attempt of the session ends in: a response, or an exception
\* (asyncio/builtin TimeoutError, aiohttp ClientError, ConnectionError, any other).
AttemptOutcomes ==
    [kind : {"response"}, status : {200, 304, 404, 500}]
    \cup [kind : {"timeout", "client_error", "connection_error", "other"}, status : {0}]
NoAttempt == [kind |-> "none", status |-> 0]

RECURSIVE SumOver(_, _)
SumOver(f, S) ==
    IF S = {} THEN 0
    ELSE LET x == CHOOSE y \in S : TRUE IN f[x] + SumOver(f, S \ {x})

Alive == SumOver(gwait, Semaphores) + SumOver(gfly, SemaphoreArgs)

GateInit ==
    /\ gfree = [s \in Semaphores |-> GateSize]
    /\ gwait = [s \in Semaphores |-> 0]
    /\ gfly = [a \in SemaphoreArgs |-> 0]
    /\ glast = [arg |-> "none", outcome |-> NoAttempt]
    /\ feeds = <<>> /\ db = <<>> /\ notices = 0
    /\ MonIdle /\ RegIdle /\ SchedIdle /\ RestIdleBut("gate")

\* web.get is called, web.py:77-100: with semaphore=False it goes on to the
\* session at once, otherwise it awaits acquire().
GetCall(arg) ==
    /\ Alive < MaxFetches
    /\ IF arg = "none"
       THEN /\ gfly' = [gfly EXCEPT ![arg] = @ + 1]
            /\ gwait' = gwait
       ELSE /\ gwait' = [gwait EXCEPT ![arg] = @ + 1]
            /\ gfly' = gfly
    /\ UNCHANGED <<gfree, glast, feeds, db, gateRest>>

\* web.py:99-100: acquire() returns.
GetAcquire(sem) ==
    /\ gwait[sem] > 0
    /\ gfree[sem] > 0
    /\ gfree' = [gfree EXCEPT ![sem] = @ - 1]
    /\ gwait' = [gwait EXCEPT ![sem] = @ - 1]
    /\ gfly' = [gfly EXCEPT ![sem] = @ + 1]
    /\ UNCHANGED <<glast, feeds, db, gateRest>>

\* The release made only where web.get returns a response.
GetFinishNoFinally(arg, o) ==
    /\ gfly[arg] > 0
    /\ gfly' = [gfly EXCEPT ![arg] = @ - 1]
    /\ gfree' = IF arg # "none" /\ o.kind = "response"
                THEN [gfree EXCEPT ![arg] = @ + 1] ELSE gfree
    /\ glast' = [arg |-> arg, outcome |-> o]
    /\ UNCHANGED <<gwait, feeds, db, gateRest>>

\* web.py:102-116: the session ends in a response, which is returned, or in
\* an exception; the finally clause releases what was acquired.
GetFinish(arg, o) ==
    /\ gfly[arg] > 0
    /\ gfly' = [gfly EXCEPT ![arg] = @ - 1]
    /\ gfree' = IF arg # "none" THEN [gfree EXCEPT ![arg] = @ + 1] ELSE gfree
    /\ glast' = [arg |-> arg, outcome |-> o]
    /\ UNCHANGED <<gwait, feeds, db, gateRest>>

GateNext ==
    \/ \E arg \in SemaphoreArgs : GetCall(arg)
    \/ \E sem \in Semaphores : GetAcquire(sem)
    \/ \E arg \in SemaphoreArgs, o \in AttemptOutcomes : GetFinish(arg, o)

GateSpec == GateInit /\ [][GateNext]_vars

\* C12: at most GateSize fetches are past the gate and not finished, over
\* all fetches of the process, whatever semaphore argument they were given.
C12_GlobalFetchBound == SumOver(gfly, SemaphoreArgs) <= GateSize

\* C13: the permits of each semaphore are conserved: free permits plus the
\* fetches holding one equal the initial value, so no release is made without
\* its acquire and every exit of web.get releases once; when no fetch is
\* left the free permits are the initial ones again.
C13_PermitsConserved ==
    /\ \A s \in Semaphores : gfree[s] + gfly[s] = GateSize /\ gfree[s] \in 0..GateSize
    /\ Alive = 0 => \A s \in Semaphores : gfree[s] = GateSize

C13_Witness ==
    /\ Alive = 0
    /\ glast.arg = "global" /\ glast.outcome.kind = "timeout"
    /\ \A s \in Semaphores : gfree[s] = GateSize

----------------------------------------------------------------------------
(* The attempts of one web.get: RetryClient with RETRY_OPTION (web.py:49-53,*)
(* 103-113).                                                                *)

NumFetchers == 2    \* bound: fetches followed attempt by attempt

Fetchers == 1..NumFetchers

\* ExponentialRetry(attempts=3, ...)
RetryAttempts == 3
\* RETRY_OPTION.exceptions
RetriedExceptions == {"timeout", "client_error", "connection_error"}

\* aiohttp_retry: after attempt a ended in o another attempt is made when
\* attempts are left and o is one of the exceptions of the options or a
\* response the options do not accept.  RETRY_OPTION names no statuses and
\* leaves retry_all_server_errors at its default, so every status >= 500 is
\* retried.
Retries(a, o) ==
    /\ a < RetryAttempts
    /\ \/ o.kind \in RetriedExceptions
       \/ o.kind = "response" /\ o.status >= 500

RetryInit ==
    /\ rpc = [f \in Fetchers |-> "idle"]
    /\ rattempt = [f \in Fetchers |-> 0]
    /\ rlast = [f \in Fetchers |-> NoAttempt]
    /\ feeds = <<>> /\ db = <<>> /\ notices = 0
    /\ MonIdle /\ RegIdle /\ SchedIdle /\ RestIdleBut("retry")

\* web.py:103-105: the session makes its first attempt.
RetryStart(f) ==
    /\ rpc[f] = "idle"
    /\ rpc' = [rpc EXCEPT ![f] = "attempt"]
    /\ rattempt' = [rattempt EXCEPT ![f] = 1]
    /\ rlast' = [rlast EXCEPT ![f] = NoAttempt]
    /\ UNCHANGED <<feeds, db, retryRest>>

\* An attempt ends: another one follows, or web.get returns the response
\* (web.py:106-113) or lets the exception through.
RetryAttemptEnds(f, o) ==
    /\ rpc[f] = "attempt"
    /\ rlast' = [rlast EXCEPT ![f] = o]
    /\ IF Retries(rattempt[f], o)
       THEN /\ rattempt' = [rattempt EXCEPT ![f] = @ + 1]
            /\ rpc' = rpc
       ELSE /\ rattempt' = rattempt
            /\ rpc' = [rpc EXCEPT ![f] = IF o.kind = "response" THEN "returned" ELSE "raised"]
    /\ UNCHANGED <<feeds, db, retryRest>>

\* The caller of web.get has its result.
RetryTaken(f) ==
    /\ rpc[f] \in {"returned", "raised"}
    /\ rpc' = [rpc EXCEPT ![f] = "idle"]
    /\ rattempt' = [rattempt EXCEPT ![f] = 0]
    /\ rlast' = [rlast EXCEPT ![f] = NoAttempt]
    /\ UNCHANGED <<feeds, db, retryRest>>

RetryNext ==
    \E f \in Fetchers :
        \/ RetryStart(f)
        \/ \E o \in AttemptOutcomes : RetryAttemptEnds(f, o)
        \/ RetryTaken(f)

RetrySpec == RetryInit /\ [][RetryNext]_vars

\* C14: a fetch makes at most 3 attempts; an attempt is followed by another
\* only when it ended in a timeout, connection or client-transport error;
\* an attempt that ended in a response, whatever its status, is the last and
\* its response is what web.get returns.
C14_RetryPolicy ==
    \A f \in Fetchers :
        /\ rattempt[f] <= 3
        /\ (rpc[f] = "attempt" /\ rattempt[f] > 1)
              => rlast[f].kind \in {"timeout", "connection_error", "client_error"}
        /\ rlast[f].kind = "response" => rpc[f] = "returned"

----------------------------------------------------------------------------
(* web.proxy_filter (web.py:56-74) and the connector of web.get             *)
(* (web.py:96-97).  A hostname is either an IP address, given by the part   *)
(* of it the reserved blocks look at, or a name, given character by         *)
(* character.                                                               *)

MaxHostLen == 4     \* bound: longest hostname that is a name

HostChars == {"a", "b", "."}

RECURSIVE StringsUpTo(_, _)
StringsUpTo(S, n) ==
    IF n = 0 THEN {<<>>}
    ELSE LET shorter == StringsUpTo(S, n - 1)
         IN  shorter \cup {Append(w, x) : w \in {t \in shorter : Len(t) = n - 1}, x \in S}

\* IPv4 a.b.0.1 : the first two octets; IPv6 hi::lo : the first group and
\* the value of the rest.
IPv4Hosts == [ip : {4}, a : {9, 10, 11, 126, 127, 128, 169, 172, 192},
                        b : {0, 15, 16, 31, 32, 168, 254, 255}]
IPv6Hosts == [ip : {6}, a : {0, 64511, 64512, 65023, 65024, 65151, 65152, 65215, 65216},
                        b : {0, 1, 2}]
NameHosts == [ip : {0}, name : StringsUpTo(HostChars, MaxHostLen) \ {<<>>}]
Hosts == IPv4Hosts \cup IPv6Hosts \cup NameHosts

\* env.PROXY_BYPASS_DOMAINS, in the order of the setting.
BypassDomainLists ==
    { <<>>, << <<"b">> >>, << <<"a", ".", "b">> >>,
      << <<"b">>, <<"a", ".", "b">> >>, << <<"a", ".", "b">>, <<"b">> >> }

\* any(ip_a in network for network in PRIVATE_NETWORKS), web.py:31-38, 64.
InPrivateNetworks(h) ==
    IF h.ip = 4
    THEN \/ h.a = 127                               \* 127.0.0.0/8
         \/ h.a = 169 /\ h.b = 254                  \* 169.254.0.0/16
         \/ h.a = 10                                \* 10.0.0.0/8
         \/ h.a = 172 /\ h.b \div 16 = 1            \* 172.16.0.0/12
         \/ h.a = 192 /\ h.b = 168                  \* 192.168.0.0/16
    ELSE \/ h.a = 0 /\ h.b = 1                      \* ::1/128
         \/ h.a \div 64 = 65152 \div 64             \* fe80::/10
         \/ h.a \div 512 = 64512 \div 512           \* fc00::/7

\* str.endswith
EndsWith(w, suffix) ==
    /\ Len(w) >= Len(suffix)
    /\ SubSeq(w, Len(w) - Len(suffix) + 1, Len(w)) = suffix

\* The generator of web.py:70-71 from domain i on: True at the first domain
\* that matches, IndexError where hostname[-len(domain) - 1] is out of range.
RECURSIVE AnyBypassed(_, _, _)
AnyBypassed(hostname, domains, i) ==
    IF i > Len(domains) THEN "False"
    ELSE LET domain == domains[i]
         IN  IF ~EndsWith(hostname, domain) THEN AnyBypassed(hostname, domains, i + 1)
             ELSE IF Len(domain) + 1 > Len(hostname) THEN "IndexError"
             ELSE IF hostname[Len(hostname) - Len(domain)] = "." THEN "True"
             ELSE AnyBypassed(hostname, domains, i + 1)

\* web.proxy_filter: "True" (use the proxy), "False" (bypass it), or the
\* exception it raises.
proxy_filter(h, bypass_private, bypass_domains) ==
    IF ~(bypass_private \/ bypass_domains # <<>>) THEN "True"
    ELSE IF bypass_private /\ h.ip # 0 /\ InPrivateNetworks(h) THEN "False"
    ELSE IF bypass_domains # <<>> /\ h.ip = 0 /\ h.name = <<>> THEN "AttributeError"  \* None.endswith
    ELSE IF bypass_domains # <<>> /\ h.ip = 0    \* no address ends with a domain of the lists
    THEN LET is_bypassed == AnyBypassed(h.name, bypass_domains, 1)
         IN  IF is_bypassed = "True" THEN "False"
             ELSE IF is_bypassed = "False" THEN "True"
             ELSE is_bypassed
    ELSE "True"

\* urlparse(url).hostname is None for a url without a hostname:
\* ip_address(None) raises the ValueError that web.py:67 catches.
NoHost == [ip |-> 0, name |-> <<>>]

ProxyInit ==
    /\ purl \in [host : {NoHost}, proxy : BOOLEAN, bypass_private : BOOLEAN,
                 bypass_domains : BypassDomainLists]
    /\ pres = "none"
    /\ feeds = <<>> /\ db = <<>> /\ notices = 0
    /\ MonIdle /\ RegIdle /\ SchedIdle /\ RestIdleBut("proxy")

\* web.get is called with a url, web.py:77-83.
GetUrl ==
    /\ pres # "-"
    /\ \E h \in Hosts \cup {NoHost} : purl' = [purl EXCEPT !.host = h]
    /\ pres' = "-"
    /\ UNCHANGED <<feeds, db, proxyRest>>

\* web.py:96-97: ProxyConnector if PROXY and proxy_filter(url), else TCPConnector.
GetConnector ==
    /\ pres = "-"
    /\ pres' = IF ~purl.proxy THEN "direct"
               ELSE LET f == proxy_filter(purl.host, purl.bypass_private, purl.bypass_domains)
                    IN  IF f = "True" THEN "proxy"
                        ELSE IF f = "False" THEN "direct"
                        ELSE f
    /\ UNCHANGED <<purl, feeds, db, proxyRest>>

ProxyNext == GetUrl \/ GetConnector

ProxySpec == ProxyInit /\ [][ProxyNext]_vars

\* The hostname is the domain or a subdomain of it, label by label.
MatchesDomain(name, domain) == name = domain \/ EndsWith(name, <<".">> \o domain)

\* The reserved blocks: loopback, link-local, private, unique local.
InReservedBlock(h) ==
    IF h.ip = 4
    THEN \/ h.a = 127
         \/ h.a = 10
         \/ h.a = 169 /\ h.b = 254
         \/ h.a = 172 /\ h.b \in 16..31
         \/ h.a = 192 /\ h.b = 168
    ELSE \/ h.a = 0 /\ h.b = 1
         \/ h.a \in 65152..65215
         \/ h.a \in 64512..65023

\* C15: with a proxy configured, the connection is direct exactly when the
\* hostname is an IP address in a reserved block (and bypassing private
\* addresses is switched on) or it is a configured bypass domain or a
\* dot-separated subdomain of one; for every other hostname the proxy is used.
C15_ProxyRouting ==
    (purl.proxy /\ pres \notin {"none", "-"})
    => LET bypass ==
              \/ purl.host.ip # 0 /\ purl.bypass_private /\ InReservedBlock(purl.host)
              \/ /\ purl.host.ip = 0
                 /\ \E i \in 1..Len(purl.bypass_domains) :
                        MatchesDomain(purl.host.name, purl.bypass_domains[i])
       IN  pres = IF bypass THEN "direct" ELSE "proxy"

\* C34: proxy_filter gives a routing decision for every hostname and every
\* list of bypass domains, and raises for none: web.get comes to a
\* connector, direct or through the proxy, for every url.
C34_ProxyFilterNeverRaises ==
    pres \in {"none", "-", "direct", "proxy"}

----------------------------------------------------------------------------
(* A polling cycle: Feeds.monitor_async from the gather on (feed.py:130-148)*)

MaxDue == 3         \* bound: feeds due in one cycle

\* What Feed.monitor_async ends in: True, None, False, or an exception that
\* leaves it (KeyError at feed.py:37 for an entry with neither guid nor link,
\* an exception of db.write at feed.py:44, AttributeError at feed.py:82 for a
\* feed without title).
PollResults == {"True", "None", "False", "raised"}

NoCounts == [updated |-> 0, no_update |-> 0, fail |-> 0]

\* The loop of feed.py:138-145 over the results.
CountResults(result) ==
    [updated   |-> Cardinality({f \in DOMAIN result : result[f] = "True"}),
     no_update |-> Cardinality({f \in DOMAIN result : result[f] = "None"}),
     fail      |-> Cardinality({f \in DOMAIN result : result[f] = "False"})]

CycleInit ==
    /\ polls = <<>>
    /\ cyc = [state |-> "idle", counts |-> NoCounts]
    /\ feeds = <<>> /\ db = <<>> /\ notices = 0
    /\ MonIdle /\ RegIdle /\ SchedIdle /\ RestIdleBut("cycle")

\* feed.py:130-132: the polls of the due feeds are handed to asyncio.gather.
CycleStart ==
    /\ cyc.state # "gathering"
    /\ \A f \in DOMAIN polls : polls[f] # "running"
    /\ \E n \in 0..MaxDue : polls' = [f \in 1..n |-> "running"]
    /\ cyc' = [state |-> "gathering", counts |-> NoCounts]
    /\ UNCHANGED <<feeds, db, cycleRest>>

\* The poll of one feed ends.  (gather cancels nothing: a poll goes on
\* running when another has raised.)
PollEnds(f) ==
    /\ f \in DOMAIN polls
    /\ polls[f] = "running"
    /\ \E r \in PollResults : polls' = [polls EXCEPT ![f] = r]
    /\ UNCHANGED <<cyc, feeds, db, cycleRest>>

\* feed.py:132: gather, called without return_exceptions, passes the first
\* exception of a poll on to monitor_async, which it leaves.
CycleRaises ==
    /\ cyc.state = "gathering"
    /\ \E f \in DOMAIN polls : polls[f] = "raised"
    /\ cyc' = [state |-> "raised", counts |-> NoCounts]
    /\ UNCHANGED <<polls, feeds, db, cycleRest>>

\* feed.py:132-148: every poll has returned; the results are counted.
CycleCounts ==
    /\ cyc.state = "gathering"
    /\ \A f \in DOMAIN polls : polls[f] \in {"True", "None", "False"}
    /\ cyc' = [state |-> "finished", counts |-> CountResults(polls)]
    /\ UNCHANGED <<polls, feeds, db, cycleRest>>

CycleNext ==
    \/ CycleStart
    \/ \E f \in 1..MaxDue : PollEnds(f)
    \/ CycleRaises
    \/ CycleCounts

CycleSpec == CycleInit /\ [][CycleNext]_vars

\* C16: whatever a poll of a due feed ends in, the cycle ends with counts
\* for which updated + not updated + failed = number of feeds due.
C16_CycleCountsAllFeeds ==
    cyc.state \in {"finished", "raised"}
    => /\ cyc.state = "finished"
       /\ cyc.counts.updated + cyc.counts.no_update + cyc.counts.fail = Len(polls)

----------------------------------------------------------------------------
(* The Feed Fetch Adapter: web.feed_get (web.py:131-197) and                *)
(* feed.feed_get_async (feed.py:261-281) as functions of what web.get and   *)
(* feedparser.parse do.                                                     *)

\* Exceptions web.get can raise, by class.
GetExceptions ==
    {"InvalidURL", "asyncio.TimeoutError", "ClientError", "SSLError", "OSError",
     "ConnectionError", "TimeoutError", "Exception"}

\* The classes an exception of class c is an instance of (Exception aside).
Bases(c) ==
    IF c = "InvalidURL" THEN {"InvalidURL", "ClientError", "ValueError"}
    ELSE IF c \in {"SSLError", "ConnectionError", "TimeoutError"} THEN {c, "OSError"}
    ELSE {c}

\* A call of web.get and what follows it: an exception, or a response with
\* its status, its Content-Length header (missing, "0", a positive number,
\* not a number) and what feedparser.parse makes of its body (an exception,
\* a feed without title, a feed with title).
FetcherBehaviours ==
    [kind : {"raises"}, exc : GetExceptions]
    \cup [kind : {"response"}, status : {200, 304, 404},
          content_length : {"missing", "0", "10", "abc"},
          parsed : {"raises", "no_title", "feed"}]

AdapterRet(status, ok, msg) ==
    [raised |-> FALSE, exc |-> None, status |-> status, rss_d |-> ok, msg |-> msg]
AdapterRaised(exc, status) ==
    [raised |-> TRUE, exc |-> exc, status |-> status, rss_d |-> FALSE, msg |-> None]

\* The try block without the test of Content-Length (web.py:154-157).
feed_get_try_no_length_check(b) ==
    IF b.kind = "raises" THEN AdapterRaised(b.exc, -1)
    ELSE IF b.status = 304 THEN AdapterRet(304, FALSE, "not_modified")
    ELSE IF b.status # 200 THEN AdapterRet(b.status, FALSE, "status_code_error")
    ELSE IF b.parsed = "raises" THEN AdapterRaised("Exception", 200)
    ELSE IF b.parsed = "no_title" THEN AdapterRet(200, FALSE, "feed_invalid")
    ELSE AdapterRet(200, TRUE, None)

\* The try block of feed_get, web.py:147-181: the value it returns or leaves
\* in ret, or the exception raised in it.
feed_get_try(b) ==
    IF b.kind = "raises" THEN AdapterRaised(b.exc, -1)
    ELSE IF b.status = 200 /\ b.content_length = "abc"
    THEN AdapterRaised("ValueError", 200)         \* int() of the header
    ELSE IF b.status = 200 /\ b.content_length = "0"
    THEN AdapterRet(304, FALSE, "content_length_0")
    ELSE IF b.status = 304 THEN AdapterRet(304, FALSE, "not_modified")
    ELSE IF b.status # 200 THEN AdapterRet(b.status, FALSE, "status_code_error")
    ELSE IF b.parsed = "raises" THEN AdapterRaised("Exception", 200)
    ELSE IF b.parsed = "no_title" THEN AdapterRet(200, FALSE, "feed_invalid")
    ELSE AdapterRet(200, TRUE, None)

\* feed_get without its last handler.
feed_get_no_catch_all(b) ==
    LET r == feed_get_try(b)
    IN  IF ~r.raised THEN r
        ELSE IF "InvalidURL" \in Bases(r.exc)
        THEN AdapterRet(r.status, FALSE, "url_invalid")
        ELSE IF Bases(r.exc) \cap {"asyncio.TimeoutError", "ClientError", "SSLError",
                                   "OSError", "ConnectionError", "TimeoutError"} # {}
        THEN AdapterRet(r.status, FALSE, "network_error")
        ELSE r

\* web.feed_get: the except clauses of web.py:182-196 in their order, then
\* return ret.
feed_get(b) ==
    LET r == feed_get_try(b)
    IN  IF ~r.raised THEN r
        ELSE IF "InvalidURL" \in Bases(r.exc)
        THEN AdapterRet(r.status, FALSE, "url_invalid")
        ELSE IF Bases(r.exc) \cap {"asyncio.TimeoutError", "ClientError", "SSLError",
                                   "OSError", "ConnectionError", "TimeoutError"} # {}
        THEN AdapterRet(r.status, FALSE, "network_error")
        ELSE AdapterRet(r.status, FALSE, "internal_error")

AdapterInit ==
    /\ ain = [kind |-> "none"]
    /\ ares = [fn |-> "-"]
    /\ feeds = <<>> /\ db = <<>> /\ notices = 0
    /\ MonIdle /\ RegIdle /\ SchedIdle /\ RestIdleBut("adapter")

\* web.feed_get is called.
FeedGet ==
    /\ \E b \in FetcherBehaviours :
        /\ ain' = b
        /\ ares' = [fn |-> "feed_get", failed |-> ~feed_get(b).rss_d, r |-> feed_get(b)]
    /\ UNCHANGED <<feeds, db, adapterRest>>

\* feed.feed_get_async is called, with a uid or without.
FeedGetAsync ==
    /\ \E o \in FetchOutcomes, uid \in {0, 1} :
        LET r == feed_get_async(o, uid)
        IN  /\ ain' = [kind |-> "outcome", o |-> o, uid |-> uid]
            /\ ares' = [fn |-> "feed_get_async", failed |-> ~r.rss_d.ok,
                        r |-> AdapterRet(0, r.rss_d.ok, r.notice)]
    /\ UNCHANGED <<feeds, db, adapterRest>>

AdapterNext == FeedGet \/ FeedGetAsync

AdapterSpec == AdapterInit /\ [][AdapterNext]_vars

\* C17: whatever the fetcher and the parser do, feed_get and feed_get_async
\* return: no exception leaves them, and a call that yields no feed returns
\* a value that says so (feed_get: no rss_d and a message; feed_get_async:
\* None).
C17_AdapterIsTotal ==
    ares.fn # "-"
    => /\ ~ares.r.raised
       /\ (ares.fn = "feed_get" /\ ~ares.r.rss_d) => ares.r.msg # None

C17_Witness ==
    /\ ares.fn = "feed_get" /\ ain.kind = "response"
    /\ ain.status = 200 /\ ain.content_length = "abc"
    /\ ~ares.r.raised /\ ares.r.msg = "internal_error"

\* C22: feed_get reports status 304 without a parsed feed exactly when the
\* response has status 304, or status 200 and a Content-Length of 0; the
\* body is then not given to feedparser.parse (a parse that would raise
\* leaves no trace), and a 200 without Content-Length is not among them.
C22_NotModifiedCases ==
    (ares.fn = "feed_get" /\ ain.kind = "response")
    => LET not_modified == ares.r.status = 304 /\ ~ares.r.rss_d
       IN  /\ not_modified <=> \/ ain.status = 304
                               \/ ain.status = 200 /\ ain.content_length = "0"
           /\ not_modified => /\ ~ares.r.raised
                              /\ ares.r.msg \in {"not_modified", "content_length_0"}
           /\ (ain.status = 200 /\ ain.content_length = "missing") => ~not_modified

\* A 200 with Content-Length 0 whose body the parser would have choked on.
C22_Witness ==
    /\ ares.fn = "feed_get" /\ ain.kind = "response"
    /\ ain.status = 200 /\ ain.content_length = "0" /\ ain.parsed = "raises"
    /\ ares.r.status = 304 /\ ~ares.r.rss_d /\ ares.r.msg = "content_length_0"

\* C23: of a body that was fetched and parsed, the feed is returned exactly
\* when its metadata has a title, whatever its entries; without a title the
\* caller gets no feed ("feed invalid"), and nothing else is classified so.
C23_TitleDecidesInvalidFeed ==
    /\ (ares.fn = "feed_get" /\ ain.kind = "response" /\ ain.status = 200
            /\ ain.content_length \in {"missing", "10"} /\ ain.parsed # "raises")
        => /\ ares.r.rss_d <=> ain.parsed = "feed"
           /\ ares.r.msg = "feed_invalid" <=> ain.parsed = "no_title"
    /\ (ares.fn = "feed_get" /\ ares.r.msg = "feed_invalid")
        => ain.kind = "response" /\ ain.status = 200 /\ ain.parsed = "no_title"
    /\ (ares.fn = "feed_get_async" /\ ain.o.kind = "response" /\ ain.o.status = 200)
        => (ares.r.rss_d <=> ain.o.body.title)

----------------------------------------------------------------------------
(* The dispatch of one batch: Feed.send, _generate, _send_callback, _send   *)
(* (feed.py:67-97).  An entry is named by its index in the fetched feed.    *)

MaxBatch == 3       \* bound: entries in one batch

generate_max_concurrency == 7   \* Feed._generate_max_concurrency
send_max_concurrency == 3       \* Feed._send_max_concurrency

PipeInit ==
    /\ batch = <<>> /\ gen_queue = <<>> /\ gen_busy = {}
    /\ send_queue = <<>> /\ send_busy = {} /\ deliveries = <<>>
    /\ feeds = <<>> /\ db = <<>> /\ notices = 0
    /\ MonIdle /\ RegIdle /\ SchedIdle /\ RestIdleBut("pipe")

\* Feed.send is called for the entries [0, end) in reverse (feed.py:64,
\* 77-79); the entries of the batch before are through.
SendCalled ==
    /\ batch = <<>> /\ gen_queue = <<>> /\ gen_busy = {}
    /\ send_queue = <<>> /\ send_busy = {}
    /\ \E end \in 1..MaxBatch : batch' = [j \in 1..end |-> end - j]
    /\ deliveries' = <<>>
    /\ UNCHANGED <<gen_queue, gen_busy, send_queue, send_busy, feeds, db, pipeRest>>

\* feed.py:81-83: _generate_pool.submit for the next entry of the loop.
SubmitEntry ==
    /\ batch # <<>>
    /\ gen_queue' = Append(gen_queue, Head(batch))
    /\ batch' = Tail(batch)
    /\ UNCHANGED <<gen_busy, send_queue, send_busy, deliveries, feeds, db, pipeRest>>

\* A free thread of _generate_pool takes the oldest waiting entry and runs
\* _generate (feed.py:85-88).
GenerateStart ==
    /\ gen_queue # <<>>
    /\ Cardinality(gen_busy) < generate_max_concurrency
    /\ gen_busy' = gen_busy \cup {Head(gen_queue)}
    /\ gen_queue' = Tail(gen_queue)
    /\ UNCHANGED <<batch, send_queue, send_busy, deliveries, feeds, db, pipeRest>>

\* _generate ends for entry e; _send_callback (feed.py:90-92) submits the
\* post to _send_pool, or raises at future.result() when _generate raised.
GenerateDone(e) ==
    /\ e \in gen_busy
    /\ gen_busy' = gen_busy \ {e}
    /\ \E rendered \in BOOLEAN :
        send_queue' = IF rendered THEN Append(send_queue, e) ELSE send_queue
    /\ UNCHANGED <<batch, gen_queue, send_busy, deliveries, feeds, db, pipeRest>>

\* A free thread of _send_pool takes the oldest waiting post and runs _send
\* (feed.py:94-97): post.send_message begins.
SendStart ==
    /\ send_queue # <<>>
    /\ Cardinality(send_busy) < send_max_concurrency
    /\ send_busy' = send_busy \cup {Head(send_queue)}
    /\ deliveries' = Append(deliveries, Head(send_queue))
    /\ send_queue' = Tail(send_queue)
    /\ UNCHANGED <<batch, gen_queue, gen_busy, feeds, db, pipeRest>>

\* post.send_message returns or raises.
SendDone(e) ==
    /\ e \in send_busy
    /\ send_busy' = send_busy \ {e}
    /\ UNCHANGED <<batch, gen_queue, gen_busy, send_queue, deliveries, feeds, db, pipeRest>>

PipeNext ==
    \/ SendCalled
    \/ SubmitEntry
    \/ GenerateStart
    \/ \E e \in 0..(MaxBatch - 1) : GenerateDone(e)
    \/ SendStart
    \/ \E e \in 0..(MaxBatch - 1) : SendDone(e)

PipeSpec == PipeInit /\ [][PipeNext]_vars

\* C18: the deliveries of the entries of one batch begin oldest first: an
\* entry with a higher feed index never begins after one with a lower index.
C18_DeliveriesOldestFirst ==
    \A i, j \in 1..Len(deliveries) : i < j => deliveries[i] > deliveries[j]

----------------------------------------------------------------------------
(* The two pools over all feeds (feed.py:20-24, 81-97).  The tasks are     *)
(* counted; one submitted entry at a time is followed through the pools.   *)
(* A ThreadPoolExecutor keeps the submitted tasks in an unbounded FIFO     *)
(* queue and runs at most max_workers of them at once.                     *)

MaxTasks == 11      \* bound: tasks submitted and not through

NoMark == [at |-> "none", ahead |-> 0, full |-> FALSE]

InPools == gen_pool.queue + gen_pool.busy + callbacks + send_pool.queue + send_pool.busy

\* How many of the tasks at position `at` are not the followed one.
Others(n, at) == IF mark.at = at THEN n - 1 ELSE n

PoolInit ==
    /\ gen_pool = [queue |-> 0, busy |-> 0]
    /\ callbacks = 0
    /\ send_pool = [queue |-> 0, busy |-> 0]
    /\ mark = NoMark
    /\ feeds = <<>> /\ db = <<>> /\ notices = 0
    /\ MonIdle /\ RegIdle /\ SchedIdle /\ RestIdleBut("pool")

\* A submit that turns the task away when every thread is busy.
PoolSubmitRejectsWhenFull(follow) ==
    /\ InPools < MaxTasks
    /\ gen_pool' = IF gen_pool.busy = generate_max_concurrency THEN gen_pool
                   ELSE [gen_pool EXCEPT !.queue = @ + 1]
    /\ IF follow
       THEN /\ mark.at \in {"none", "failed", "sent"}
            /\ mark' = [at |-> "gen_queue", ahead |-> gen_pool.queue,
                        full |-> gen_pool.busy = generate_max_concurrency]
       ELSE mark' = mark
    /\ UNCHANGED <<callbacks, send_pool, feeds, db, poolRest>>

\* feed.py:82: _generate_pool.submit(self._generate, ...), by any feed.
PoolSubmit(follow) ==
    /\ InPools < MaxTasks
    /\ gen_pool' = [gen_pool EXCEPT !.queue = @ + 1]
    /\ IF follow
       THEN /\ mark.at \in {"none", "failed", "sent"}
            /\ mark' = [at |-> "gen_queue", ahead |-> gen_pool.queue,
                        full |-> gen_pool.busy = generate_max_concurrency]
       ELSE mark' = mark
    /\ UNCHANGED <<callbacks, send_pool, feeds, db, poolRest>>

\* A thread started although max_workers tasks are running.
PoolGenerateStartUnbounded ==
    /\ gen_pool.queue > 0
    /\ gen_pool' = [queue |-> gen_pool.queue - 1, busy |-> gen_pool.busy + 1]
    /\ mark' = IF mark.at # "gen_queue" THEN mark
               ELSE IF mark.ahead = 0 THEN [mark EXCEPT !.at = "rendering"]
               ELSE [mark EXCEPT !.ahead = @ - 1]
    /\ UNCHANGED <<callbacks, send_pool, feeds, db, poolRest>>

\* A free 'Post' thread takes the oldest waiting task (feed.py:23-24, 85).
PoolGenerateStart ==
    /\ gen_pool.queue > 0
    /\ gen_pool.busy < generate_max_concurrency
    /\ gen_pool' = [queue |-> gen_pool.queue - 1, busy |-> gen_pool.busy + 1]
    /\ mark' = IF mark.at # "gen_queue" THEN mark
               ELSE IF mark.ahead = 0 THEN [mark EXCEPT !.at = "rendering"]
               ELSE [mark EXCEPT !.ahead = @ - 1]
    /\ UNCHANGED <<callbacks, send_pool, feeds, db, poolRest>>

\* feed.py:85-88: _generate returns its post, or raises (then the callback
\* raises at future.result(), feed.py:91, and nothing is sent).
PoolGenerateDone(followed, rendered) ==
    /\ IF followed THEN mark.at = "rendering" ELSE Others(gen_pool.busy, "rendering") > 0
    /\ gen_pool' = [gen_pool EXCEPT !.busy = @ - 1]
    /\ callbacks' = IF rendered THEN callbacks + 1 ELSE callbacks
    /\ mark' = IF ~followed THEN mark
               ELSE [mark EXCEPT !.at = IF rendered THEN "callback" ELSE "failed"]
    /\ UNCHANGED <<send_pool, feeds, db, poolRest>>

\* feed.py:90-92: _send_callback submits the post to _send_pool.
PoolSendCallback(followed) ==
    /\ IF followed THEN mark.at = "callback" ELSE Others(callbacks, "callback") > 0
    /\ callbacks' = callbacks - 1
    /\ send_pool' = [send_pool EXCEPT !.queue = @ + 1]
    /\ mark' = IF ~followed THEN mark
               ELSE [mark EXCEPT !.at = "send_queue", !.ahead = send_pool.queue]
    /\ UNCHANGED <<gen_pool, feeds, db, poolRest>>

\* A free 'Send' thread takes the oldest waiting post (feed.py:20-21, 94).
PoolSendStart ==
    /\ send_pool.queue > 0
    /\ send_pool.busy < send_max_concurrency
    /\ send_pool' = [queue |-> send_pool.queue - 1, busy |-> send_pool.busy + 1]
    /\ mark' = IF mark.at # "send_queue" THEN mark
               ELSE IF mark.ahead = 0 THEN [mark EXCEPT !.at = "sending"]
               ELSE [mark EXCEPT !.ahead = @ - 1]
    /\ UNCHANGED <<gen_pool, callbacks, feeds, db, poolRest>>

\* feed.py:95-97: post.send_message returns or raises.
PoolSendDone(followed) ==
    /\ IF followed THEN mark.at = "sending" ELSE Others(send_pool.busy, "sending") > 0
    /\ send_pool' = [send_pool EXCEPT !.busy = @ - 1]
    /\ mark' = IF followed THEN [mark EXCEPT !.at = "sent"] ELSE mark
    /\ UNCHANGED <<gen_pool, callbacks, feeds, db, poolRest>>

PoolNext ==
    \/ \E follow \in BOOLEAN : PoolSubmit(follow)
    \/ PoolGenerateStart
    \/ \E followed, rendered \in BOOLEAN : PoolGenerateDone(followed, rendered)
    \/ \E followed \in BOOLEAN : PoolSendCallback(followed)
    \/ PoolSendStart
    \/ \E followed \in BOOLEAN : PoolSendDone(followed)

PoolSpec == PoolInit /\ [][PoolNext]_vars

\* The threads of both pools are scheduled fairly and each task they run ends.
PoolFairness ==
    /\ WF_vars(PoolGenerateStart)
    /\ WF_vars(\E rendered \in BOOLEAN : PoolGenerateDone(TRUE, rendered))
    /\ WF_vars(\E rendered \in BOOLEAN : PoolGenerateDone(FALSE, rendered))
    /\ WF_vars(PoolSendCallback(TRUE))
    /\ WF_vars(PoolSendCallback(FALSE))
    /\ WF_vars(PoolSendStart)
    /\ WF_vars(PoolSendDone(TRUE))
    /\ WF_vars(PoolSendDone(FALSE))

PoolFairSpec == PoolSpec /\ PoolFairness

\* C19: at most 7 entries are being rendered and at most 3 messages are
\* being sent at once, however many have been submitted.
C19_PoolBounds ==
    /\ gen_pool.busy <= 7
    /\ send_pool.busy <= 3

C19_Witness ==
    /\ gen_pool.busy = 7 /\ gen_pool.queue > 0
    /\ send_pool.busy = 3

\* C20: a submitted entry, also one submitted while every render thread was
\* busy, is eventually rendered (or its render fails); a rendered one is
\* eventually handed to the send pool and from there to a send thread; and a
\* waiting send can start whenever a send thread is free, whatever is being
\* rendered.
C20_BackpressureWithoutLoss ==
    /\ (mark.at = "gen_queue") ~> (mark.at \in {"callback", "failed"})
    /\ (mark.at = "callback") ~> (mark.at = "send_queue")
    /\ (mark.at = "send_queue") ~> (mark.at = "sending")
    /\ []((send_pool.queue > 0 /\ send_pool.busy < send_max_concurrency)
            => ENABLED PoolSendStart)

C20_Witness ==
    /\ mark.at = "sending" /\ mark.full
    /\ gen_pool.busy = generate_max_concurrency

----------------------------------------------------------------------------
(* The send stage: what becomes of each entry Feed.send submits             *)
(* (feed.py:81-97).  _generate returns the post or raises; the done         *)
(* callback _send_callback reads future.result(), which raises what         *)
(* _generate raised (the executor logs an exception of a callback and goes  *)
(* on), and otherwise submits _send to _send_pool; _send calls              *)
(* post.send_message, which returns or raises into the future nobody reads. *)
(* Which of the waiting tasks a free thread takes is left open here (the    *)
(* order is that of PipeSpec).                                              *)

NumPosts == 4       \* bound: entries submitted

Posts == 1..NumPosts

\* The entries at one place of the way.
Stage(st) == {e \in Posts : posts[e].at = st}

DeliverInit ==
    /\ posts = [e \in Posts |-> [at |-> "new", render |-> "-"]]
    /\ send_calls = [e \in Posts |-> 0]
    /\ feeds = <<>> /\ db = <<>> /\ notices = 0
    /\ MonIdle /\ RegIdle /\ SchedIdle /\ RestIdleBut("deliver")

\* feed.py:82: _generate_pool.submit(self._generate, uid, entry, title).
DeliverSubmit(e) ==
    /\ posts[e].at = "new"
    /\ posts' = [posts EXCEPT ![e].at = "generate_queue"]
    /\ UNCHANGED <<send_calls, feeds, db, deliverRest>>

\* A free 'Post' thread begins _generate for e (feed.py:85-87).
DeliverGenerateStart(e) ==
    /\ posts[e].at = "generate_queue"
    /\ Cardinality(Stage("generating")) < generate_max_concurrency
    /\ posts' = [posts EXCEPT ![e].at = "generating"]
    /\ UNCHANGED <<send_calls, feeds, db, deliverRest>>

\* _generate returns (feed.py:88) or raises: the future is done.
DeliverGenerateEnds(e, rendered) ==
    /\ posts[e].at = "generating"
    /\ posts' = [posts EXCEPT ![e] = [at |-> "done", render |-> IF rendered THEN "post" ELSE "raised"]]
    /\ UNCHANGED <<send_calls, feeds, db, deliverRest>>

\* A callback that submits _send without reading the result of the render.
send_callback_unconditional(e) ==
    /\ posts[e].at = "done"
    /\ posts' = [posts EXCEPT ![e].at = "send_queue"]
    /\ UNCHANGED <<send_calls, feeds, db, deliverRest>>

\* Feed._send_callback (feed.py:90-92): future.result() raises for a failed
\* render, and the callback ends there; for a post it submits _send.
send_callback(e) ==
    /\ posts[e].at = "done"
    /\ posts' = [posts EXCEPT ![e].at = IF posts[e].render = "post" THEN "send_queue"
                                        ELSE "dropped"]
    /\ UNCHANGED <<send_calls, feeds, db, deliverRest>>

\* A free 'Send' thread runs Feed._send for e (feed.py:94-97) and calls
\* post.send_message.
DeliverSend(e) ==
    /\ posts[e].at = "send_queue"
    /\ Cardinality(Stage("sending")) < send_max_concurrency
    /\ posts' = [posts EXCEPT ![e].at = "sending"]
    /\ send_calls' = [send_calls EXCEPT ![e] = @ + 1]
    /\ UNCHANGED <<feeds, db, deliverRest>>

\* post.send_message returns or raises; _send ends either way and its
\* thread is free again.
DeliverSendEnds(e, delivered) ==
    /\ posts[e].at = "sending"
    /\ posts' = [posts EXCEPT ![e].at = IF delivered THEN "sent" ELSE "send_failed"]
    /\ UNCHANGED <<send_calls, feeds, db, deliverRest>>

DeliverSendAny == \E e \in Posts : DeliverSend(e)

DeliverNext ==
    \/ \E e \in Posts : DeliverSubmit(e)
    \/ \E e \in Posts : DeliverGenerateStart(e)
    \/ \E e \in Posts, rendered \in BOOLEAN : DeliverGenerateEnds(e, rendered)
    \/ \E e \in Posts : send_callback(e)
    \/ DeliverSendAny
    \/ \E e \in Posts, delivered \in BOOLEAN : DeliverSendEnds(e, delivered)

DeliverSpec == DeliverInit /\ [][DeliverNext]_vars

\* C21: post.send_message is called at most once for an entry, exactly once
\* for an entry whose render succeeded once its send has run, and never for
\* an entry whose render failed or has not ended; a delivery that failed is
\* not called again, and whatever deliveries failed, a waiting post is taken
\* as soon as a 'Send' thread is free.
C21_DeliverOncePerRendered ==
    /\ \A e \in Posts :
        /\ send_calls[e] <= 1
        /\ posts[e].render # "post" => send_calls[e] = 0
        /\ (posts[e].render = "post" /\ posts[e].at \in {"sent", "send_failed"})
            => send_calls[e] = 1
    /\ (Stage("send_queue") # {} /\ Cardinality(Stage("sending")) < send_max_concurrency)
        => ENABLED DeliverSendAny

\* One render failed, one delivery failed, and two other posts were
\* delivered, one call each.
C21_Witness ==
    \E a, b, c, d \in Posts :
        /\ posts[a].render = "raised" /\ posts[a].at = "dropped" /\ send_calls[a] = 0
        /\ posts[b].at = "send_failed" /\ send_calls[b] = 1
        /\ posts[c].at = "sent" /\ send_calls[c] = 1
        /\ posts[d].at = "sent" /\ send_calls[d] = 1 /\ c # d

----------------------------------------------------------------------------
(* Polls of one feed that overlap.  Feed.monitor_async awaits the fetch     *)
(* (feed.py:33) and runs the rest (feed.py:34-65) without another await, so *)
(* the rest is one step of the event loop.  The source of the feed          *)
(* publishes entries one after the other; a fetch is answered with the      *)
(* content of the moment of its request and completes any time later.       *)

NumPolls == 2       \* bound: polls of the feed under way at once
MaxPublished == 3   \* bound: entries the source publishes

Polls == 1..NumPolls

\* The entry published as the n-th: its link is its diff key.
PublishedEntry(n) == [guid |-> None, link |-> n]

\* The feed document at a moment when n entries are out, newest first.
FeedDocument(n) == [i \in 1..n |-> PublishedEntry(n + 1 - i)]

NoPoll == [pc |-> "idle", top |-> 0, ret |-> "-"]

OverlapInit ==
    /\ published = 1
    /\ opolls = [p \in Polls |-> NoPoll]
    /\ flast = 1 /\ fdb = 1 /\ fbatch = <<>>
    /\ feeds = <<>> /\ db = <<>> /\ notices = 0
    /\ MonIdle /\ RegIdle /\ SchedIdle /\ RestIdleBut("overlap")

\* The source publishes its next entry.
Publish ==
    /\ published < MaxPublished
    /\ published' = published + 1
    /\ UNCHANGED <<opolls, flast, fdb, fbatch, feeds, db, overlapRest>>

\* feed.py:33: a poll requests the feed; the answer is made of what is
\* published now.
PollRequest(p) ==
    /\ opolls[p].pc = "idle"
    /\ opolls' = [opolls EXCEPT ![p] = [pc |-> "fetching", top |-> published, ret |-> "-"]]
    /\ UNCHANGED <<published, flast, fdb, fbatch, feeds, db, overlapRest>>

\* feed.py:34-65: the fetch of poll p completes and the poll runs to its
\* return.
monitor_async(p, fetched_ok) ==
    /\ opolls[p].pc = "fetching"
    /\ LET entries == FeedDocument(opolls[p].top)
           feed_last == DiffKey(entries[1])
       IN  IF ~fetched_ok
           THEN /\ opolls' = [opolls EXCEPT ![p].pc = "returned", ![p].ret = "False"]
                /\ UNCHANGED <<flast, fdb, fbatch>>
           ELSE IF flast = feed_last
           THEN /\ opolls' = [opolls EXCEPT ![p].pc = "returned", ![p].ret = "None"]
                /\ UNCHANGED <<flast, fdb, fbatch>>
           ELSE LET end == ScanEnd(entries, flast, 0)
                IN  /\ flast' = feed_last
                    /\ fdb' = feed_last
                    /\ fbatch' = IF end = NoneInt \/ end = 0 THEN <<>>
                                 ELSE send(entries, 0, end, TRUE)
                    /\ opolls' = [opolls EXCEPT ![p].pc = "returned", ![p].ret = "True"]
    /\ UNCHANGED <<published, feeds, db, overlapRest>>

\* The caller has the result of the poll (feed.py:132).
PollResultTaken(p) ==
    /\ opolls[p].pc = "returned"
    /\ opolls' = [opolls EXCEPT ![p] = NoPoll]
    /\ UNCHANGED <<published, flast, fdb, fbatch, feeds, db, overlapRest>>

OverlapNext ==
    \/ Publish
    \/ \E p \in Polls : PollRequest(p)
    \/ \E p \in Polls, fetched_ok \in BOOLEAN : monitor_async(p, fetched_ok)
    \/ \E p \in Polls : PollResultTaken(p)

OverlapSpec == OverlapInit /\ [][OverlapNext]_vars

\* C24: Feed.last changes only in a poll that ends in Success with a top
\* entry other than the marker, and then to an entry at least as new as the
\* one it designated.
C24_LastNeverRegresses ==
    [][flast' # flast
        => /\ flast' >= flast
           /\ \E p \in Polls :
                /\ opolls[p].pc = "fetching" /\ opolls[p].top # flast
                /\ opolls'[p].ret = "True" /\ flast' = opolls[p].top]_vars

----------------------------------------------------------------------------
(* The content parser on an img element: Parser._parse_item                 *)
(* (html_parser.py:113-164).  A URL is its base (None when it is relative)  *)
(* and its path; a numeric value of a srcset descriptor is held in tenths.  *)

MaxSrcset == 3      \* bound: image candidate strings in a srcset

Paths == {"a.jpg", "b.jpg", "d.gif", "e.jpg"}
Descriptors == {"", "480w", "800w", "2x", "0.5x"}

\* None where the code holds a URL.
NoUrl == [base |-> None, path |-> None]

\* The nodes of html_node: a node has its class, and as content a string,
\* or the nodes it holds; a Link has its href as param.
Node(class, text, kids, param) == [node |-> class, text |-> text, kids |-> kids, param |-> param]
Nil == Node("None", "", <<>>, NoUrl)             \* None where the code holds a node
Text(s) == Node("Text", s, <<>>, NoUrl)          \* Text(str)
TextOf(items) == Node("Text", "", items, NoUrl)  \* Text([...])
Br(count) == Node("Br", IF count = 2 THEN "\n\n" ELSE "\n", <<>>, NoUrl)
Link(text, param) == Node("Link", text, <<>>, param)

\* is_absolute_link(url)
is_absolute_link(u) == u.base # None

\* urljoin(feed_link, url) for a relative url
urljoin(feed_link, u) == [base |-> feed_link, path |-> u.path]

\* emojify: a name between colons becomes its emoji, other text stays.
emojify(s) == IF s = ":smile:" THEN "(emoji smile)" ELSE s

\* The groups 'number' and 'unit' of srcsetParser for one descriptor and
\* what html_parser.py:128-129 makes of them.
SrcsetMatch(c) ==
    [url |-> c.url,
     number |-> CASE c.descriptor = "480w" -> 4800 [] c.descriptor = "800w" -> 8000
                  [] c.descriptor = "2x" -> 20 [] c.descriptor = "0.5x" -> 5
                  [] OTHER -> 10,
     unit |-> IF c.descriptor \in {"480w", "800w"} THEN "w" ELSE "x"]

\* list.sort(key=number, reverse=True): descending, and stable.
RECURSIVE SortDescending(_)
SortDescending(s) ==
    IF s = <<>> THEN <<>>
    ELSE LET rest == SortDescending(Tail(s))
             k == Cardinality({i \in 1..Len(rest) : rest[i].number > Head(s).number})
         IN  SubSeq(rest, 1, k) \o <<Head(s)>> \o SubSeq(rest, k + 1, Len(rest))

\* [match for match in matches if match['unit'] == unit]
RECURSIVE OfUnit(_, _)
OfUnit(s, unit) ==
    IF s = <<>> THEN <<>>
    ELSE IF Head(s).unit = unit THEN <<Head(s)>> \o OfUnit(Tail(s), unit)
    ELSE OfUnit(Tail(s), unit)

\* The loop without the push-back of html_parser.py:146-148.
RECURSIVE MergeCandidatesNoPushBack(_, _, _)
MergeCandidatesNoPushBack(w, x, out) ==
    IF w = <<>> /\ x = <<>> THEN out
    ELSE LET out_w == IF w # <<>> THEN Append(out, Head(w).url) ELSE out
             rest_w == IF w # <<>> THEN Tail(w) ELSE w
         IN  IF x = <<>> THEN MergeCandidatesNoPushBack(rest_w, x, out_w)
             ELSE MergeCandidatesNoPushBack(rest_w, Tail(x), Append(out_w, Head(x).url))

\* The loop of html_parser.py:138-149 from one of its rounds on: w and x are
\* the two sorted lists, out is _multi_src.
RECURSIVE MergeCandidates(_, _, _)
MergeCandidates(w, x, out) ==
    IF w = <<>> /\ x = <<>> THEN out
    ELSE LET out_w == IF w # <<>> THEN Append(out, Head(w).url) ELSE out
             rest_w == IF w # <<>> THEN Tail(w) ELSE w
         IN  IF x = <<>> THEN MergeCandidates(rest_w, x, out_w)
             ELSE IF Head(x).number <= 10 /\ rest_w # <<>>
             THEN MergeCandidates(rest_w, x, out_w)      \* let src using unit w win
             ELSE MergeCandidates(rest_w, Tail(x), Append(out_w, Head(x).url))

\* float('inf') of html_parser.py:119-120
Infinity == 1000000

\* int(width) if width and width.isdigit() else float('inf')
AttrSize(v) ==
    CASE v = "0" -> 0 [] v = "20" -> 20 [] v = "30" -> 30 [] v = "31" -> 31
      [] v = "300" -> 300 [] OTHER -> Infinity

\* isSmallIcon (html_parser.py:17) on the styles of ImgStyles: the pattern
\* is searched, so it is found after "line-" and "max-" too.
isSmallIcon(style) == style \in {"width: 20px", "max-width: 30px", "line-height: 1.5em"}

\* Media.add: the item is appended to the media of the parser.
media_add(media, item) == Append(media, item)

\* html_parser.py:152-161: the URLs of _multi_src resolved, in order.
RECURSIVE ResolveAll(_, _)
ResolveAll(multi, feed_link) ==
    IF multi = <<>> THEN <<>>
    ELSE <<IF ~is_absolute_link(Head(multi)) /\ feed_link # None
           THEN urljoin(feed_link, Head(multi)) ELSE Head(multi)>>
         \o ResolveAll(Tail(multi), feed_link)

\* urlparse(_src).path.endswith(('.gif', '.gifv', '.webm', '.mp4', '.m4v'))
IsAnimationPath(u) == u.path \in {"d.gif"}

\* html_parser.py:124-151: _multi_src of an img that is no icon.
img_multi_src(soup) ==
    IF soup.srcset # <<>>
    THEN LET srcset_matches ==
                [i \in 1..Len(soup.srcset) |-> SrcsetMatch(soup.srcset[i])]
                \o (IF soup.src # NoUrl THEN <<[url |-> soup.src, number |-> 10, unit |-> "x"]>>
                    ELSE <<>>)
         IN  MergeCandidates(SortDescending(OfUnit(srcset_matches, "w")),
                             SortDescending(OfUnit(srcset_matches, "x")), <<>>)
    ELSE IF soup.src # NoUrl THEN <<soup.src>> ELSE <<>>

\* The branch with a width or height of 30 not taken as an icon.
parse_img_icon_below_30(soup, feed_link, media) ==
    IF soup.src = NoUrl /\ soup.srcset = <<>> THEN [item |-> Nil, media |-> media]
    ELSE IF \/ AttrSize(soup.width) < 30 \/ AttrSize(soup.height) < 30
            \/ isSmallIcon(soup.style) \/ "emoji" \in soup.class
            \/ soup.alt \in {":", ":smile:"}
    THEN [item |-> IF soup.alt # "" THEN Text(emojify(soup.alt)) ELSE Nil,
          media |-> media]
    ELSE LET multi_src == ResolveAll(img_multi_src(soup), feed_link)
             is_gif == \E i \in 1..Len(multi_src) : IsAnimationPath(multi_src[i])
         IN  [item |-> Nil,
              media |-> IF multi_src # <<>>
                        THEN media_add(media, [type |-> IF is_gif THEN "Animation" ELSE "Image",
                                               urls |-> multi_src])
                        ELSE media]

\* The branch of _parse_item for an img (html_parser.py:113-164): the node
\* it returns and the media of the parser after it.
parse_img(soup, feed_link, media) ==
    IF soup.src = NoUrl /\ soup.srcset = <<>> THEN [item |-> Nil, media |-> media]
    ELSE IF \/ AttrSize(soup.width) <= 30 \/ AttrSize(soup.height) <= 30
            \/ isSmallIcon(soup.style) \/ "emoji" \in soup.class
            \/ soup.alt \in {":", ":smile:"}
    THEN [item |-> IF soup.alt # "" THEN Text(emojify(soup.alt)) ELSE Nil,
          media |-> media]
    ELSE LET multi_src == ResolveAll(img_multi_src(soup), feed_link)
             is_gif == \E i \in 1..Len(multi_src) : IsAnimationPath(multi_src[i])
         IN  [item |-> Nil,
              media |-> IF multi_src # <<>>
                        THEN media_add(media, [type |-> IF is_gif THEN "Animation" ELSE "Image",
                                               urls |-> multi_src])
                        ELSE media]

\* The img elements parsed: every srcset of up to MaxSrcset candidates with
\* different URLs on an img with no other attribute than src, and every
\* combination of the attributes that make an icon on an img with a short
\* srcset or none.
ImgCandidates == [url : [base : {None}, path : Paths], descriptor : Descriptors]
ImgSrcsets ==
    {s \in SeqsUpTo(ImgCandidates, MaxSrcset) :
        \A i, j \in 1..Len(s) : i # j => s[i].url # s[j].url}
ImgSrcs == {NoUrl, [base |-> None, path |-> "c.jpg"], [base |-> "http://cdn", path |-> "c.jpg"]}
ImgStyles == {"", "width: 20px", "width: 300px", "line-height: 1.5em"}
ImgElements ==
    [src : ImgSrcs, srcset : ImgSrcsets, alt : {""}, class : {{}}, style : {""},
     width : {""}, height : {""}]
    \cup [src : {NoUrl, [base |-> None, path |-> "c.jpg"]},
          srcset : {s \in ImgSrcsets : s = <<>> \/ (Len(s) = 1 /\ s[1].descriptor = "480w"
                                                     /\ s[1].url.path = "a.jpg")},
          alt : {"", ":smile:", ":", "photo"},
          class : {{}, {"emoji"}, {"emoji-icon"}},
          style : ImgStyles,
          width : {"", "0", "20", "30", "31", "20px"},
          height : {"", "20"}]

NoImg == [src |-> NoUrl, srcset |-> <<>>, alt |-> "-"]

ImgInit ==
    /\ img = [soup |-> NoImg, feed_link |-> None]
    /\ iout = [item |-> Nil, media |-> <<>>]
    /\ feeds = <<>> /\ db = <<>> /\ notices = 0
    /\ MonIdle /\ RegIdle /\ SchedIdle /\ RestIdleBut("img")

\* A parser with no media yet comes to an img element.
ParseImg ==
    /\ img.soup = NoImg
    /\ \E soup \in ImgElements, feed_link \in {None, "http://feed"} :
        /\ img' = [soup |-> soup, feed_link |-> feed_link]
        /\ iout' = parse_img(soup, feed_link, <<>>)
    /\ UNCHANGED <<feeds, db, imgRest>>

\* The parser is through with the element; another one is made for the
\* next content.
ParserDone ==
    /\ img.soup # NoImg
    /\ img' = [soup |-> NoImg, feed_link |-> None]
    /\ iout' = [item |-> Nil, media |-> <<>>]
    /\ UNCHANGED <<feeds, db, imgRest>>

ImgNext == ParseImg \/ ParserDone

ImgSpec == ImgInit /\ [][ImgNext]_vars

\* The srcset candidates of the parsed img with their number and unit, the
\* injected src included, by the URL as it is in the candidate list.
ImgCandidateOf(u) ==
    LET all == [i \in 1..Len(img.soup.srcset) |-> SrcsetMatch(img.soup.srcset[i])]
               \o (IF img.soup.src # NoUrl
                   THEN <<[url |-> img.soup.src, number |-> 10, unit |-> "x"]>> ELSE <<>>)
        i == CHOOSE k \in 1..Len(all) :
                u.path = all[k].url.path
     IN all[i]

\* The img was parsed as an image with srcset and src, and is no icon.
ImgWithSrcsetParsed ==
    /\ img.soup # NoImg /\ img.soup.srcset # <<>> /\ img.soup.src # NoUrl
    /\ img.soup.width = "" /\ img.soup.height = "" /\ img.soup.style = ""
    /\ img.soup.class = {} /\ img.soup.alt = ""

\* C26 as stated: the w-candidates are in strictly descending width order.
C26_CandidateOrder ==
    ImgWithSrcsetParsed
    => /\ Len(iout.media) = 1
       /\ LET urls == iout.media[1].urls
          IN  \A i, j \in 1..Len(urls) :
                LET a == ImgCandidateOf(urls[i])
                    b == ImgCandidateOf(urls[j])
                IN  /\ (i < j /\ a.unit = "w" /\ b.unit = "w") => a.number > b.number
                    /\ (a.unit = "x" /\ a.number <= 10 /\ b.unit = "w") => j < i

\* C26 amended: the w-candidates are in descending width order, two of the
\* same width in their srcset order, and an x-candidate of density <= 1
\* (the injected src among them) comes after every w-candidate.
C26_CandidateOrderAmended ==
    ImgWithSrcsetParsed
    => /\ Len(iout.media) = 1
       /\ LET urls == iout.media[1].urls
              Pos(u) == CHOOSE k \in 1..(Len(img.soup.srcset) + 1) :
                            IF k <= Len(img.soup.srcset) THEN img.soup.srcset[k].url.path = u.path
                            ELSE img.soup.src.path = u.path
          IN  \A i, j \in 1..Len(urls) :
                LET a == ImgCandidateOf(urls[i])
                    b == ImgCandidateOf(urls[j])
                IN  /\ (i < j /\ a.unit = "w" /\ b.unit = "w")
                        => \/ a.number > b.number
                           \/ a.number = b.number /\ Pos(urls[i]) < Pos(urls[j])
                    /\ (a.unit = "x" /\ a.number <= 10 /\ b.unit = "w") => j < i

\* srcset="a.jpg 480w, b.jpg 800w" with src="c.jpg" gave [b.jpg, a.jpg, c.jpg].
C26_Witness ==
    /\ ImgWithSrcsetParsed /\ img.feed_link = None
    /\ img.soup.srcset = <<[url |-> [base |-> None, path |-> "a.jpg"], descriptor |-> "480w"],
                           [url |-> [base |-> None, path |-> "b.jpg"], descriptor |-> "800w"]>>
    /\ img.soup.src = [base |-> None, path |-> "c.jpg"]
    /\ iout.media = <<[type |-> "Image",
                       urls |-> <<[base |-> None, path |-> "b.jpg"],
                                  [base |-> None, path |-> "a.jpg"],
                                  [base |-> None, path |-> "c.jpg"]>>]>>

\* The parsed img has a src and a width or height attribute of at most 30.
ImgSmallParsed ==
    /\ img.soup # NoImg /\ img.soup.src # NoUrl
    /\ (img.soup.width \in {"0", "20", "30"} \/ img.soup.height \in {"0", "20", "30"})

\* C27: an img with a src and an explicit width or height <= 30 adds no
\* media item; without alt text it gives no node, and with the alt text
\* ':smile:' it gives one text run holding the emoji of that name.
C27_IconSuppression ==
    ImgSmallParsed
    => /\ iout.media = <<>>
       /\ img.soup.alt = "" => iout.item = Nil
       /\ img.soup.alt = ":smile:"
            => iout.item = Text("(emoji smile)")

\* width="30" with alt=":smile:" and a srcset: a text run and no media.
C27_Witness ==
    /\ ImgSmallParsed /\ img.soup.width = "30" /\ img.soup.height = ""
    /\ img.soup.alt = ":smile:" /\ img.soup.srcset # <<>>
    /\ img.soup.style = "" /\ img.soup.class = {}
    /\ iout.media = <<>> /\ iout.item.node = "Text"

----------------------------------------------------------------------------
(* The content parser on an iframe element: Parser._parse_item              *)
(* (html_parser.py:214-233) and its call of web.get (web.py:77-116) with    *)
(* timeout=3 and semaphore=False.                                           *)

IframeTimeout == 3  \* html_parser.py:224 timeout=3: ClientTimeout(total=3)

\* urlparse(src).netloc
netloc(u) ==
    CASE u.base = "http://feed" -> "feed" [] u.base = "http://video.example" -> "video.example"
      [] OTHER -> ""

\* The title of the page a 200 response carries: none, empty, or a text.
PageTitles == {None, "", "Page"}

\* What the try block of html_parser.py:224-227 leaves in `text`, or the
\* exception raised in it. web.get has returned the dict of web.py:110-113
\* or raised: reading the attribute `status` of a dict raises
\* AttributeError.
iframe_try(result) ==
    IF result.kind = "raises" THEN [raised |-> TRUE, exc |-> result.exc, text |-> None]
    ELSE [raised |-> TRUE, exc |-> "AttributeError", text |-> None]

\* Text([Br(2), Link(f'iframe ({text})', param=src), Br(2)])
IframeNode(text, src) ==
    TextOf(<<Br(2), Link("iframe (" \o text \o ")", src), Br(2)>>)

\* The branch without its `except Exception: pass`.
iframe_after_get_no_except(src, result) ==
    LET t == iframe_try(result)
    IN  IF t.raised THEN [raised |-> TRUE, item |-> Nil]
        ELSE [raised |-> FALSE,
              item |-> IframeNode(IF t.text \in {None, ""} THEN netloc(src) ELSE t.text, src)]

\* html_parser.py:223-233 once web.get has returned or raised: the except
\* clause swallows every Exception, the finally clause puts the netloc in
\* place of a missing or empty text, and the placeholder is returned.
iframe_after_get(src, result) ==
    LET t == iframe_try(result)
    IN  [raised |-> FALSE,
         item |-> IframeNode(IF t.text \in {None, ""} THEN netloc(src) ELSE t.text, src)]

IframeSrcs == {NoUrl, [base |-> None, path |-> "embed"],
               [base |-> "http://video.example", path |-> "embed"]}

NoIframe == [pc |-> "idle", src |-> NoUrl, text |-> None, raised |-> FALSE, item |-> Nil,
             result |-> NoAttempt, title |-> None]
NoGet == [attempt |-> 0, elapsed |-> 0, calls |-> 0]

IframeInit ==
    /\ ifr = NoIframe
    /\ ifetch = NoGet
    /\ igate = GateSize
    /\ feeds = <<>> /\ db = <<>> /\ notices = 0
    /\ MonIdle /\ RegIdle /\ SchedIdle /\ RestIdleBut("iframe")

\* Another fetch of the process passes web._semaphore (web.py:99), and
\* leaves it (web.py:115).
OtherFetchAcquires ==
    /\ igate > 0
    /\ igate' = igate - 1
    /\ UNCHANGED <<ifr, ifetch, feeds, db, iframeRest>>

OtherFetchReleases ==
    /\ igate < GateSize
    /\ igate' = igate + 1
    /\ UNCHANGED <<ifr, ifetch, feeds, db, iframeRest>>

\* html_parser.py:214-224 and web.py:77-105: the branch up to the first
\* attempt of the session. text is what the children of the iframe parsed
\* to; with semaphore=False web.get awaits no acquire().
ParseIframe ==
    /\ ifr.pc = "idle"
    /\ \E soup_src \in IframeSrcs, text \in {None, "inner"}, feed_link \in {None, "http://feed"} :
        LET src == IF soup_src # NoUrl /\ ~is_absolute_link(soup_src) /\ feed_link # None
                   THEN urljoin(feed_link, soup_src) ELSE soup_src
        IN  IF soup_src = NoUrl
            THEN /\ ifr' = [NoIframe EXCEPT !.pc = "returned", !.text = text]
                 /\ ifetch' = NoGet
            ELSE IF text # None
            THEN /\ ifr' = [NoIframe EXCEPT !.pc = "returned", !.src = src, !.text = text,
                                            !.item = IframeNode(text, src)]
                 /\ ifetch' = NoGet
            ELSE /\ ifr' = [NoIframe EXCEPT !.pc = "fetching", !.src = src]
                 /\ ifetch' = [attempt |-> 1, elapsed |-> 0, calls |-> 1]
    /\ UNCHANGED <<igate, feeds, db, iframeRest>>

\* A second of the running attempt passes.
AttemptTick ==
    /\ ifr.pc = "fetching"
    /\ ifetch.elapsed < IframeTimeout
    /\ ifetch' = [ifetch EXCEPT !.elapsed = @ + 1]
    /\ UNCHANGED <<ifr, igate, feeds, db, iframeRest>>

\* The attempt ends in o (a 200 response carries a page with the title
\* given); at the total timeout of the session it ends in TimeoutError.
\* Either another attempt is made, or web.get returns or raises and the
\* branch runs to its return (html_parser.py:225-233).
AttemptEnds(o, title) ==
    /\ ifr.pc = "fetching"
    /\ ifetch.elapsed = IframeTimeout => o.kind = "timeout"
    /\ (o.kind = "response" /\ o.status = 200) \/ title = None
    /\ IF Retries(ifetch.attempt, o)
       THEN /\ ifetch' = [ifetch EXCEPT !.attempt = @ + 1, !.elapsed = 0]
            /\ ifr' = ifr
       ELSE LET result == IF o.kind = "response"
                          THEN [kind |-> "dict", status |-> o.status, title |-> title]
                          ELSE [kind |-> "raises",
                                exc |-> CASE o.kind = "timeout" -> "asyncio.TimeoutError"
                                          [] o.kind = "client_error" -> "ClientError"
                                          [] o.kind = "connection_error" -> "ConnectionError"
                                          [] OTHER -> "Exception"]
                r == iframe_after_get(ifr.src, result)
            IN  /\ ifr' = [ifr EXCEPT !.pc = "returned", !.raised = r.raised, !.item = r.item,
                                      !.result = o, !.title = title]
                /\ ifetch' = ifetch
    /\ UNCHANGED <<igate, feeds, db, iframeRest>>

\* The parser goes on to the next element.
IframeDone ==
    /\ ifr.pc = "returned"
    /\ ifr' = NoIframe /\ ifetch' = NoGet
    /\ UNCHANGED <<igate, feeds, db, iframeRest>>

AttemptEndsAny == \E o \in AttemptOutcomes, title \in PageTitles : AttemptEnds(o, title)

IframeNext ==
    \/ OtherFetchAcquires
    \/ OtherFetchReleases
    \/ ParseIframe
    \/ AttemptTick
    \/ AttemptEndsAny
    \/ IframeDone

IframeSpec == IframeInit /\ [][IframeNext]_vars

\* ClientTimeout(total=3): an attempt that has taken the timeout ends in
\* TimeoutError.
AttemptTimesOut ==
    /\ ifetch.elapsed = IframeTimeout
    /\ AttemptEnds([kind |-> "timeout", status |-> 0], None)

\* The clock runs and the timeout fires; nothing is assumed of the server.
IframeFairness == WF_vars(AttemptTick) /\ WF_vars(AttemptTimesOut)

IframeFairSpec == IframeSpec /\ IframeFairness

\* The text of the placeholder link the branch returned.
IframeLinkText == ifr.item.kids[2].text

\* C29: an iframe with a src and no text of its own makes one call of
\* web.get; when it returned a 200 response whose page has a title the
\* link text is made of that title, and otherwise of the hostname of the
\* iframe URL.
C29_IframePlaceholderText ==
    (ifr.pc = "returned" /\ ifr.src # NoUrl /\ ifr.text = None)
    => /\ ifetch.calls = 1
       /\ IF ifr.result.kind = "response" /\ ifr.result.status = 200
             /\ ifr.title \notin {None, ""}
          THEN IframeLinkText = "iframe (" \o ifr.title \o ")"
          ELSE IframeLinkText = "iframe (" \o netloc(ifr.src) \o ")"

----------------------------------------------------------------------------
(* The content parser on a document: Parser.parse and Parser._parse_item    *)
(* (html_parser.py:46-245) and parse (html_parser.py:261-268), with two     *)
(* parsers at work on the same document.                                    *)

MaxChildren == 2    \* bound: children of the body of a document

\* The attributes an element is asked for; NoUrl and "" where it has none.
NoAttrs ==
    [src |-> NoUrl, srcset |-> <<>>, alt |-> "", class |-> {}, style |-> "",
     width |-> "", height |-> "", href |-> NoUrl]

\* The nodes of a document: a Tag, a NavigableString, and a Comment, which
\* is a subclass of NavigableString.
Tag(name, attrs, children) ==
    [name |-> name, string |-> "", attrs |-> attrs, children |-> children]
NavigableString(s) == [name |-> "#text", string |-> s, attrs |-> NoAttrs, children |-> <<>>]
Comment(s) == [name |-> "#comment", string |-> s, attrs |-> NoAttrs, children |-> <<>>]

Hr == Node("Hr", "----------------------", <<>>, NoUrl)
\* Bold(text), Pre(text), ListItem(text), ...: a node around one node.
Wrap(class, item) == Node(class, "", IF item = Nil THEN <<>> ELSE <<item>>, NoUrl)

\* bool(node): a node is true when its content is not empty.
Truthy(item) == item # Nil /\ (item.text # "" \/ item.kids # <<>>)

\* str(node) in the f-string of html_parser.py:233: the text of the node.
RECURSIVE node_str(_)
node_str(item) ==
    IF item.kids = <<>> THEN item.text
    ELSE node_str(item.kids[1]) \o node_str(TextOf(Tail(item.kids)))

\* quote.strip(): the white space at the ends of the quote is removed.
RECURSIVE strip(_)
strip(item) ==
    IF item.kids = <<>>
    THEN [item EXCEPT !.text = IF @ = " hi " THEN "hi" ELSE @]
    ELSE [item EXCEPT !.kids = [i \in 1..Len(@) |->
                                   IF i \in {1, Len(@)} THEN strip(@[i]) ELSE @[i]]]

\* The branch of _parse_item for a video (html_parser.py:166-181); the
\* source elements are the children of the video.
parse_video(soup, feed_link, media) ==
    LET sources == SelectSeq(soup.children,
                             LAMBDA t : t.name = "source" /\ t.attrs.src # NoUrl)
        _multi_src == [i \in 1..Len(sources) |-> sources[i].attrs.src]
                      \o (IF soup.attrs.src # NoUrl THEN <<soup.attrs.src>> ELSE <<>>)
        multi_src == ResolveAll(_multi_src, feed_link)
    IN  [item |-> Nil,
         media |-> IF multi_src # <<>>
                   THEN media_add(media, [type |-> "Video", urls |-> multi_src])
                   ELSE media]

\* Every href joined to the feed link, an absolute one too.
resolve_always_joins(url, feed_link) ==
    IF feed_link # None THEN urljoin(feed_link, url) ELSE url

\* href and src of html_parser.py:109-110, 219-220
resolve(url, feed_link) ==
    IF ~is_absolute_link(url) /\ feed_link # None THEN urljoin(feed_link, url) ELSE url

RECURSIVE parse_item(_, _, _, _), parse_children(_, _, _, _)

\* The loop without the test of html_parser.py:238 on the type of the child.
parse_children_keeps_text(children, tag, P, media) ==
    IF children = <<>> THEN [result |-> <<>>, media |-> media]
    ELSE LET first == parse_item(Head(children), tag, P, media)
             rest == parse_children(Tail(children), tag, P, first.media)
         IN  [result |-> (IF Truthy(first.item) THEN <<first.item>> ELSE <<>>) \o rest.result,
              media |-> rest.media]

\* The loops of html_parser.py:58-61 and 236-239 over the children of an
\* element: the results kept, in order, and the media after them. P holds
\* the feed link of the parser and the answer web.get gives for an iframe.
parse_children(children, tag, P, media) ==
    IF children = <<>> THEN [result |-> <<>>, media |-> media]
    ELSE LET child == Head(children)
             first == parse_item(child, tag, P, media)
             rest == parse_children(Tail(children), tag, P, first.media)
             in_list == tag \in {"ol", "ul"}
             kept == Truthy(first.item) /\ (~in_list \/ child.name # "#text")
         IN  [result |-> (IF kept THEN <<first.item>> ELSE <<>>) \o rest.result,
              media |-> rest.media]

\* html_parser.py:57-64: _parse_item(soup.children)
parse_iterator(children, tag, P, media) ==
    LET r == parse_children(children, tag, P, media)
    IN  [item |-> IF r.result = <<>> THEN Nil
                  ELSE IF Len(r.result) = 1 THEN r.result[1] ELSE TextOf(r.result),
         media |-> r.media]

\* Parser._parse_item on one node (html_parser.py:66-245): the node it
\* returns and the media of the parser after it. parent is soup.parent.name.
parse_item(soup, parent, P, media) ==
    LET tag == soup.name
        text == parse_iterator(soup.children, tag, P, media)
        Returns(item) == [item |-> item, media |-> text.media]
        Around(class) == Returns(IF Truthy(text.item) THEN Wrap(class, text.item) ELSE Nil)
    IN  CASE tag = "#text" -> [item |-> Text(emojify(soup.string)), media |-> media]
          [] tag = "#comment" -> [item |-> Nil, media |-> media]
          [] tag \in {"p", "section"} ->
                Returns(IF ~Truthy(text.item) THEN Nil
                        ELSE IF parent # "li" THEN TextOf(<<Br(1), text.item, Br(1)>>)
                        ELSE text.item)
          [] tag = "blockquote" ->
                Returns(IF ~Truthy(text.item) THEN Nil
                        ELSE TextOf(<<Hr, strip(text.item), Hr>>))
          [] tag = "pre" -> Returns(Wrap("Pre", text.item))
          [] tag = "code" -> Returns(Wrap("Code", text.item))
          [] tag = "br" -> [item |-> Br(1), media |-> media]
          [] tag = "a" ->
                IF ~Truthy(text.item) \/ soup.attrs.href = NoUrl THEN Returns(Nil)
                ELSE LET again == parse_iterator(soup.children, tag, P, text.media)
                     IN  [item |-> Node("Link", "", <<again.item>>,
                                        resolve(soup.attrs.href, P.feed_link)),
                          media |-> again.media]
          [] tag = "img" -> parse_img(soup.attrs, P.feed_link, media)
          [] tag = "video" -> parse_video(soup, P.feed_link, media)
          [] tag \in {"b", "strong"} -> Around("Bold")
          [] tag \in {"i", "em"} -> Around("Italic")
          [] tag \in {"u", "ins"} -> Around("Underline")
          [] tag = "h1" ->
                Returns(IF ~Truthy(text.item) THEN Nil
                        ELSE TextOf(<<Br(2), Wrap("Bold", Wrap("Underline", text.item)), Br(1)>>))
          [] tag = "h2" ->
                Returns(IF ~Truthy(text.item) THEN Nil
                        ELSE TextOf(<<Br(2), Wrap("Bold", text.item), Br(1)>>))
          [] tag = "hr" -> [item |-> Hr, media |-> media]
          [] tag \in {"h3", "h4", "h5", "h6"} ->
                Returns(IF ~Truthy(text.item) THEN Nil
                        ELSE TextOf(<<Br(2), Wrap("Underline", text.item), Br(1)>>))
          [] tag = "li" -> Around("ListItem")
          [] tag = "iframe" ->
                IF soup.attrs.src = NoUrl THEN Returns(Nil)
                ELSE LET src == resolve(soup.attrs.src, P.feed_link)
                     IN  Returns(IF Truthy(text.item) THEN IframeNode(node_str(text.item), src)
                                 ELSE iframe_after_get(src, P.answer).item)
          [] OTHER ->
                LET r == parse_children(soup.children, tag, P, media)
                IN  [item |-> CASE tag = "ol" -> Node("OrderedList", "",
                                                      <<Br(1)>> \o r.result \o <<Br(1)>>, NoUrl)
                                [] tag = "ul" -> Node("UnorderedList", "",
                                                      <<Br(1)>> \o r.result \o <<Br(1)>>, NoUrl)
                                [] OTHER -> IF Len(r.result) = 1 THEN r.result[1]
                                            ELSE TextOf(r.result),
                     media |-> r.media]

Runs == {1, 2}

\* The elements a document is made of.
Rel(path) == [base |-> None, path |-> path]
Img(src) == Tag("img", [NoAttrs EXCEPT !.src = src], <<>>)
BodyNodes ==
    {NavigableString("hi"), NavigableString(":smile:"), Comment("note"),
     Img(Rel("a.jpg")),
     Tag("img", [NoAttrs EXCEPT !.src = Rel("b.jpg"), !.width = "20", !.alt = "photo"], <<>>),
     Tag("iframe", [NoAttrs EXCEPT !.src = Rel("embed")], <<>>),
     Tag("a", [NoAttrs EXCEPT !.href = Rel("post")], <<Img(Rel("d.gif")), NavigableString("hi")>>),
     Tag("ul", NoAttrs, <<NavigableString(" "),
                          Tag("li", NoAttrs, <<Tag("p", NoAttrs, <<NavigableString("hi")>>)>>)>>),
     Tag("div", NoAttrs, <<Tag("b", NoAttrs, <<NavigableString("hi")>>), Tag("br", NoAttrs, <<>>)>>),
     Tag("video", NoAttrs, <<Tag("source", [NoAttrs EXCEPT !.src = Rel("e.jpg")], <<>>)>>),
     Tag("blockquote", NoAttrs, <<NavigableString(" hi ")>>)}

\* What web.get gives a parser that asks for the page of an iframe.
IframeAnswers ==
    {[kind |-> "dict", status |-> 200, title |-> "Page", exc |-> None],
     [kind |-> "raises", status |-> 0, title |-> None, exc |-> "asyncio.TimeoutError"]}

NoDom == [children |-> <<>>, feed_link |-> None, answer |-> NoAttempt]
NoRun == [pc |-> "idle", todo |-> <<>>, result |-> <<>>, media |-> <<>>, html_tree |-> Nil]

ParseInit ==
    /\ dom = NoDom
    /\ runs = [r \in Runs |-> NoRun]
    /\ feeds = <<>> /\ db = <<>> /\ notices = 0
    /\ MonIdle /\ RegIdle /\ SchedIdle /\ RestIdleBut("parse")

\* The content of an entry comes in: the soup of html_parser.py:40.
NewDocument ==
    /\ dom = NoDom
    /\ \E children \in SeqsUpTo(BodyNodes, MaxChildren) \ {<<>>},
          feed_link \in {None, "http://feed"}, answer \in IframeAnswers :
        dom' = [children |-> children, feed_link |-> feed_link, answer |-> answer]
    /\ UNCHANGED <<runs, feeds, db, parseRest>>

\* parse (html_parser.py:266-267) makes a Parser, which has a Media of its
\* own (html_parser.py:41), and calls Parser.parse on the soup.
ParserStarts(r) ==
    /\ dom # NoDom /\ runs[r].pc = "idle"
    /\ runs' = [runs EXCEPT ![r] = [NoRun EXCEPT !.pc = "parsing",
                                                 !.todo = [i \in 1..Len(dom.children) |-> i]]]
    /\ UNCHANGED <<dom, feeds, db, parseRest>>

\* The children taken as their parsing ends, not in document order.
next_child_as_completed(todo) == {todo[i] : i \in 1..Len(todo)}

\* for child in soup.children (html_parser.py:236): the child the loop
\* comes to next.
next_child(todo) == {Head(todo)}

\* One turn of the loop of html_parser.py:236-239 on the body: the child is
\* parsed, with the awaits of its subtree, and its item kept if it is true.
ParseChild(r) ==
    /\ runs[r].pc = "parsing" /\ runs[r].todo # <<>>
    /\ \E i \in next_child(runs[r].todo) :
        LET p == parse_item(dom.children[i], "body", dom, runs[r].media)
        IN  runs' = [runs EXCEPT ![r].todo = SelectSeq(@, LAMBDA j : j # i),
                                 ![r].media = p.media,
                                 ![r].result = IF Truthy(p.item) THEN Append(@, p.item) ELSE @]
    /\ UNCHANGED <<dom, feeds, db, parseRest>>

\* html_parser.py:245 and 47-48: the tree of the body is the html_tree of
\* the parser, and parse returns it with the media.
ParseReturns(r) ==
    /\ runs[r].pc = "parsing" /\ runs[r].todo = <<>>
    /\ runs' = [runs EXCEPT ![r].pc = "parsed",
                            ![r].html_tree = IF Len(runs[r].result) = 1 THEN runs[r].result[1]
                                             ELSE TextOf(runs[r].result)]
    /\ UNCHANGED <<dom, feeds, db, parseRest>>

\* Both results are taken; the next content comes.
DocumentDone ==
    /\ \A r \in Runs : runs[r].pc = "parsed"
    /\ dom' = NoDom
    /\ runs' = [r \in Runs |-> NoRun]
    /\ UNCHANGED <<feeds, db, parseRest>>

ParseNext ==
    \/ NewDocument
    \/ \E r \in Runs : ParserStarts(r)
    \/ \E r \in Runs : ParseChild(r)
    \/ \E r \in Runs : ParseReturns(r)
    \/ DocumentDone

ParseSpec == ParseInit /\ [][ParseNext]_vars

----------------------------------------------------------------------------
(* Parser._parse_item (html_parser.py:55-245) on the DOM trees of a bounded *)
(* depth, and on the elements around links, lists and media.                *)

MaxDepth == 2       \* bound: depth of the generated DOM trees

\* A width of the one character U+00B2 (superscript two, written "sup2"
\* here): str.isdigit() is True for it and int() raises ValueError
\* (html_parser.py:119-120).
int_raises(v) == v = "sup2"

\* The exception that leaves _parse_item: no branch catches one of a child,
\* so an exception raised in a subtree the walk comes to leaves every
\* _parse_item above it. img, video, br and hr do not walk their children.
RECURSIVE parse_raises(_)
parse_raises(soup) ==
    CASE soup.name \in {"#text", "#comment", "br", "hr", "video"} -> FALSE
      [] soup.name = "img" ->
            /\ soup.attrs.src # NoUrl \/ soup.attrs.srcset # <<>>
            /\ int_raises(soup.attrs.width) \/ int_raises(soup.attrs.height)
      [] OTHER -> \E i \in 1..Len(soup.children) : parse_raises(soup.children[i])

\* The trees of depth d: leaves, and unrecognised tags (div), recognised
\* inline tags (b) and list containers (ul) around no, one or two trees.
TreeLeaves ==
    {NavigableString("hi"), Comment("note"), Img(Rel("a.jpg")),
     Tag("img", [NoAttrs EXCEPT !.src = Rel("b.jpg"), !.width = "sup2"], <<>>)}
RECURSIVE Trees(_)
Trees(d) ==
    IF d = 1 THEN TreeLeaves
    ELSE LET below == Trees(d - 1)
         IN  below \cup {Tag(n, NoAttrs, c) : n \in {"div", "b", "ul"},
                                              c \in SeqsUpTo(below, 2)}

\* The `a` elements: without an href (or with an empty one), with a
\* relative and with an absolute one, around nothing, a text, a comment, an
\* image, an image and a text, and a bold text.
LinkTrees ==
    {Tag("a", [NoAttrs EXCEPT !.href = href], c) :
        href \in {NoUrl, Rel("post"), [base |-> "http://site", path |-> "post"]},
        c \in {<<>>, <<NavigableString("hi")>>, <<Comment("note")>>, <<Img(Rel("a.jpg"))>>,
               <<Img(Rel("a.jpg")), NavigableString("hi")>>,
               <<Tag("b", NoAttrs, <<NavigableString("hi")>>)>>}}

\* The list containers: ol and ul around up to three of a white space, a
\* text, two list items, an empty list item, a bold text and a comment.
ListChildren ==
    {NavigableString(" "), NavigableString("hi"), Comment("note"),
     Tag("li", NoAttrs, <<NavigableString("hi")>>),
     Tag("li", NoAttrs, <<Tag("p", NoAttrs, <<NavigableString(":smile:")>>)>>),
     Tag("li", NoAttrs, <<>>),
     Tag("b", NoAttrs, <<NavigableString("hi")>>)}
ListTrees == {Tag(n, NoAttrs, c) : n \in {"ol", "ul"}, c \in SeqsUpTo(ListChildren, 3)}

DomTrees == Trees(MaxDepth) \cup LinkTrees \cup ListTrees

NoTree == [soup |-> Comment("-"), feed_link |-> None]
NoOut == [pc |-> "idle", raised |-> FALSE, item |-> Nil, media |-> <<>>]
\* The parser of a tree: its feed link, and a page for every iframe.
TreeParser ==
    [feed_link |-> tnode.feed_link,
     answer |-> [kind |-> "dict", status |-> 200, title |-> "Page", exc |-> None]]

TreeInit ==
    /\ tnode = NoTree
    /\ tout = NoOut
    /\ feeds = <<>> /\ db = <<>> /\ notices = 0
    /\ MonIdle /\ RegIdle /\ SchedIdle /\ RestIdleBut("tree")

\* A new Parser is given a tree: _parse_item returns a node with the media
\* collected, or an exception leaves it.
ParseTree ==
    /\ tout.pc = "idle"
    /\ \E soup \in DomTrees, feed_link \in {None, "http://feed"} :
        /\ tnode' = [soup |-> soup, feed_link |-> feed_link]
        /\ tout' = IF parse_raises(soup) THEN [NoOut EXCEPT !.pc = "returned", !.raised = TRUE]
                   ELSE LET p == parse_item(soup, "body",
                                            [feed_link |-> feed_link, answer |-> TreeParser.answer],
                                            <<>>)
                        IN  [pc |-> "returned", raised |-> FALSE, item |-> p.item,
                             media |-> p.media]
    /\ UNCHANGED <<feeds, db, treeRest>>

\* The result is taken.
TreeDone ==
    /\ tout.pc = "returned"
    /\ tnode' = NoTree /\ tout' = NoOut
    /\ UNCHANGED <<feeds, db, treeRest>>

TreeNext == ParseTree \/ TreeDone

TreeSpec == TreeInit /\ [][TreeNext]_vars

\* What a node hands to the list of results of its parent (html_parser.py:
\* 60-61, 238-239): itself when it is true.
Contributed(item) == IF Truthy(item) THEN <<item>> ELSE <<>>

\* C31: _parse_item raises on no tree, and an unrecognised tag hands up
\* exactly the results of its children, in order, with no node of its own.
C31_UnrecognisedNeverAborts ==
    tout.pc = "returned"
        => /\ ~tout.raised
           /\ tnode.soup.name = "div"
                => Contributed(tout.item)
                   = parse_children(tnode.soup.children, "div", TreeParser, <<>>).result

\* C32: an `a` element becomes a Link node exactly when its children parse
\* to a true node and it has an href; the Link holds that node, with a
\* relative href joined to the feed link of the parser, if it has one, and
\* an absolute href as it is; otherwise the element becomes nothing.
C32_LinkHandling ==
    tout.pc = "returned" /\ tnode.soup.name = "a"
        => LET text == parse_iterator(tnode.soup.children, "a", TreeParser, <<>>).item
               href == tnode.soup.attrs.href
           IN  /\ ~tout.raised
               /\ IF Truthy(text) /\ href # NoUrl
                  THEN /\ tout.item.node = "Link" /\ tout.item.kids = <<text>>
                       /\ href.base # None => tout.item.param = href
                       /\ href.base = None /\ tnode.feed_link # None
                            => tout.item.param = [base |-> tnode.feed_link, path |-> href.path]
                  ELSE tout.item = Nil

C32_Witness ==
    /\ tout.pc = "returned" /\ tnode.soup.name = "a" /\ tnode.feed_link = "http://feed"
    /\ tnode.soup.attrs.href = Rel("post")
    /\ tout.item = Node("Link", "", <<Wrap("Bold", Text("hi"))>>,
                        [base |-> "http://feed", path |-> "post"])

\* The nodes the element children of the tree at hand parse to, those that
\* are true, in document order.
ElementResults ==
    LET soup == tnode.soup
        ItemOf(c) == parse_item(c, soup.name, TreeParser, <<>>).item
        kept == SelectSeq(soup.children, LAMBDA c : c.name # "#text" /\ Truthy(ItemOf(c)))
    IN  [i \in 1..Len(kept) |-> ItemOf(kept[i])]

\* C33: the node of an ol or ul holds, between its two line breaks, the
\* nodes of its element children that parse to a true node, in document
\* order, and nothing else: no node stands for a direct text child.
C33_ListContainers ==
    tout.pc = "returned" /\ tnode.soup.name \in {"ol", "ul"} /\ ~tout.raised
        => /\ tout.item.node = (IF tnode.soup.name = "ol" THEN "OrderedList" ELSE "UnorderedList")
           /\ tout.item.kids = <<Br(1)>> \o ElementResults \o <<Br(1)>>
           /\ Len(tout.item.kids) - 2
                <= Cardinality({i \in 1..Len(tnode.soup.children) :
                                    tnode.soup.children[i].name # "#text"})

C33_Witness ==
    /\ tout.pc = "returned" /\ tnode.soup.name = "ul"
    /\ tnode.soup.children = <<Tag("li", NoAttrs, <<NavigableString("hi")>>), NavigableString(" "),
                               Tag("li", NoAttrs, <<Tag("p", NoAttrs, <<NavigableString(":smile:")>>)>>)>>
    /\ tout.item.kids = <<Br(1), Wrap("ListItem", Text("hi")),
                          Wrap("ListItem", Text("(emoji smile)")), Br(1)>>

\* The img and video elements of a tree.
RECURSIVE MediaElements(_)
MediaElements(soup) ==
    (IF soup.name \in {"img", "video"} THEN 1 ELSE 0)
    + SumOver([i \in 1..Len(soup.children) |-> MediaElements(soup.children[i])],
              1..Len(soup.children))

\* C38: the media list of a parsed tree holds at most one item for each img
\* or video element of the tree.
C38_OneItemPerMediaElement ==
    tout.pc = "returned" /\ ~tout.raised => Len(tout.media) <= MediaElements(tnode.soup)

----------------------------------------------------------------------------
(* The srcset merge loop of the img branch (html_parser.py:125-151), one    *)
(* round of `while True` at a time.                                         *)

NoLoop == [pc |-> "idle", matches |-> <<>>, w |-> <<>>, x |-> <<>>, out |-> <<>>, rounds |-> 0]

MergeInit ==
    /\ loop = NoLoop
    /\ feeds = <<>> /\ db = <<>> /\ notices = 0
    /\ MonIdle /\ RegIdle /\ SchedIdle /\ RestIdleBut("merge")

\* html_parser.py:126-137: the matches of the srcset, the src as a 1x
\* candidate after them, and the two lists sorted. The src may be one of
\* the URLs of the srcset.
MergeStart ==
    /\ loop.pc = "idle"
    /\ \E srcset \in ImgSrcsets \ {<<>>}, src \in {NoUrl, Rel("c.jpg"), Rel("a.jpg")} :
        LET srcset_matches ==
                [i \in 1..Len(srcset) |-> SrcsetMatch(srcset[i])]
                \o (IF src # NoUrl THEN <<[url |-> src, number |-> 10, unit |-> "x"]>> ELSE <<>>)
        IN  loop' = [pc |-> "loop", matches |-> srcset_matches,
                     w |-> SortDescending(OfUnit(srcset_matches, "w")),
                     x |-> SortDescending(OfUnit(srcset_matches, "x")),
                     out |-> <<>>, rounds |-> 0]
    /\ UNCHANGED <<feeds, db, mergeRest>>

\* A round that puts both candidates back when the x-candidate waits.
merge_round_puts_both_back(l) ==
    LET w_had == l.w # <<>>
        x_had == l.x # <<>>
        rest_w == IF w_had THEN Tail(l.w) ELSE l.w
    IN  IF ~(w_had \/ x_had) THEN [l EXCEPT !.pc = "done"]
        ELSE IF x_had /\ Head(l.x).number <= 10 /\ rest_w # <<>>
        THEN [l EXCEPT !.rounds = @ + 1]
        ELSE [l EXCEPT !.w = rest_w,
                       !.x = IF x_had THEN Tail(@) ELSE @,
                       !.out = (IF w_had THEN Append(@, Head(l.w).url) ELSE @)
                               \o (IF x_had THEN <<Head(l.x).url>> ELSE <<>>),
                       !.rounds = @ + 1]

\* One round of the loop (html_parser.py:138-149): both lists are popped;
\* with neither the loop breaks; the w-candidate is appended; the
\* x-candidate is appended, or put back when its density is <= 1 and
\* w-candidates remain.
merge_round(l) ==
    LET w_had == l.w # <<>>
        x_had == l.x # <<>>
        rest_w == IF w_had THEN Tail(l.w) ELSE l.w
        out_w == IF w_had THEN Append(l.out, Head(l.w).url) ELSE l.out
    IN  IF ~(w_had \/ x_had) THEN [l EXCEPT !.pc = "done"]
        ELSE IF x_had /\ Head(l.x).number <= 10 /\ rest_w # <<>>
        THEN [l EXCEPT !.w = rest_w, !.out = out_w, !.rounds = @ + 1]
        ELSE [l EXCEPT !.w = rest_w,
                       !.x = IF x_had THEN Tail(@) ELSE @,
                       !.out = IF x_had THEN Append(out_w, Head(l.x).url) ELSE out_w,
                       !.rounds = @ + 1]

\* More rounds than a loop that goes on for ever needs to show itself.
MaxRounds == 2 * (MaxSrcset + 1) + 1

MergeRound ==
    /\ loop.pc = "loop" /\ loop.rounds <= MaxRounds
    /\ loop' = merge_round(loop)
    /\ UNCHANGED <<feeds, db, mergeRest>>

\* _multi_src goes on to the resolution of html_parser.py:152-161.
MergeDone ==
    /\ loop.pc = "done"
    /\ loop' = NoLoop
    /\ UNCHANGED <<feeds, db, mergeRest>>

MergeNext == MergeStart \/ MergeRound \/ MergeDone

MergeSpec == MergeInit /\ [][MergeNext]_vars

\* The loop is plain sequential code: a round that can run does run.
MergeFairSpec == MergeSpec /\ WF_vars(MergeRound)

\* How often the URL u is among the candidates, and in a list of URLs.
TimesAmong(u, matches) == Cardinality({i \in 1..Len(matches) : matches[i].url = u})
TimesIn(u, out) == Cardinality({i \in 1..Len(out) : out[i] = u})

\* C37: the merge loop ends for every set of candidates: every round but
\* the last takes a candidate off the two lists, a loop that has begun
\* comes to its end, and then _multi_src holds the URL of every candidate
\* (each entry of the srcset, and the src as 1x) exactly once.
C37_MergeTerminates ==
    /\ [][loop.pc = "loop" /\ loop'.pc = "loop"
            => Len(loop'.w) + Len(loop'.x) < Len(loop.w) + Len(loop.x)]_vars
    /\ [](loop.pc = "loop" => loop.rounds <= Len(loop.matches))
    /\ (loop.pc = "loop") ~> (loop.pc = "done")
    /\ [](loop.pc = "done"
            => /\ Len(loop.out) = Len(loop.matches)
               /\ \A i \in 1..Len(loop.matches) :
                    TimesIn(loop.matches[i].url, loop.out)
                    = TimesAmong(loop.matches[i].url, loop.matches)
               /\ loop.out = MergeCandidates(SortDescending(OfUnit(loop.matches, "w")),
                                             SortDescending(OfUnit(loop.matches, "x")), <<>>))

\* The loop has ended after a round in which the src, as 1x, was put back
\* behind two w-candidates.
C37_Witness ==
    /\ loop.pc = "done" /\ Len(loop.matches) = 3
    /\ loop.out = <<Rel("b.jpg"), Rel("a.jpg"), Rel("c.jpg")>>
    /\ loop.matches[1].url = Rel("a.jpg") /\ loop.matches[1].number = 4800

----------------------------------------------------------------------------
(* The read of rss_d.entries[0] in Feed.monitor_async (feed.py:33-43) and   *)
(* in Feeds.add_feed_async (feed.py:168-173), after feed_get_async          *)
(* (feed.py:261-281).                                                       *)

\* str(rss_d.entries[0]['guid'] if ... else rss_d.entries[0]['link']):
\* indexing an empty list raises IndexError.
first_key(rss_d) ==
    IF rss_d.entries = <<>> THEN "IndexError" ELSE DiffKey(rss_d.entries[1])

\* Feed.monitor_async up to feed.py:43: what it returns (False, None; True
\* stands for going on to the scan) or the exception that leaves it, and
\* self.last after it.
monitor_first(o, last) ==
    LET rss_d == feed_get_async(o, 0).rss_d
    IN  IF ~rss_d.ok THEN [ret |-> "False", last |-> last]
        ELSE IF first_key(rss_d) = "IndexError" THEN [ret |-> "IndexError", last |-> last]
        ELSE IF last = first_key(rss_d) THEN [ret |-> "None", last |-> last]
        ELSE [ret |-> "True", last |-> first_key(rss_d)]

\* Feeds.add_feed_async from the fetch to the new Feed (feed.py:168-173):
\* rejected (False, feed_dict), or the marker of the feed to insert.
add_first(o, uid) ==
    LET rss_d == feed_get_async(o, uid).rss_d
    IN  IF ~rss_d.ok THEN [ret |-> "rejected", last |-> None]
        ELSE IF first_key(rss_d) = "IndexError" THEN [ret |-> "IndexError", last |-> None]
        ELSE [ret |-> "accepted", last |-> first_key(rss_d)]

NoFirst == [op |-> "-", o |-> NoOutcome, last0 |-> None, ret |-> "-", last |-> None]

EntriesInit ==
    /\ efirst = NoFirst
    /\ feeds = <<>> /\ db = <<>> /\ notices = 0
    /\ MonIdle /\ RegIdle /\ SchedIdle /\ RestIdleBut("entries")

\* A poll of a feed whose marker is last.
EntriesPoll ==
    /\ efirst.op = "-"
    /\ \E o \in FetchOutcomes, last \in Keys :
        LET r == monitor_first(o, last)
        IN  efirst' = [op |-> "poll", o |-> o, last0 |-> last, ret |-> r.ret, last |-> r.last]
    /\ UNCHANGED <<feeds, db, entriesRest>>

\* An add that has passed the check for an existing feed.
EntriesAdd ==
    /\ efirst.op = "-"
    /\ \E o \in FetchOutcomes, uid \in {0, 1} :
        LET r == add_first(o, uid)
        IN  efirst' = [op |-> "add", o |-> o, last0 |-> None, ret |-> r.ret, last |-> r.last]
    /\ UNCHANGED <<feeds, db, entriesRest>>

EntriesDone ==
    /\ efirst.op # "-"
    /\ efirst' = NoFirst
    /\ UNCHANGED <<feeds, db, entriesRest>>

EntriesNext == EntriesPoll \/ EntriesAdd \/ EntriesDone

EntriesSpec == EntriesInit /\ [][EntriesNext]_vars

\* The fetch gave a body that parsed to a feed without entries.
NoEntriesFetched ==
    /\ efirst.op # "-" /\ efirst.o.kind = "response" /\ efirst.o.status = 200
    /\ efirst.o.body.entries = <<>>

\* C36: no poll and no add reads entries[0] of an empty list; a fetch that
\* yields a feed without entries ends the poll as a failure with the marker
\* as it was, and the add as rejected.
C36_NoEmptyEntriesIndexed ==
    /\ efirst.ret # "IndexError"
    /\ NoEntriesFetched /\ efirst.op = "poll"
        => efirst.ret \in {"False", "None"} /\ efirst.last = efirst.last0
    /\ NoEntriesFetched /\ efirst.op = "add" => efirst.ret = "rejected"

\* A feed with a title and no entries was polled.
C36_Witness ==
    /\ NoEntriesFetched /\ efirst.op = "poll" /\ efirst.o.body.title
    /\ efirst.ret = "False" /\ efirst.last = "k2" /\ efirst.last0 = "k2"

====
